---------------------------- MODULE Spec2Model ----------------------------
(***************************************************************************)
(* A model of parcel-tw: the HCT captcha-gated lookup (parcel_tw/hct.py),  *)
(* the 7-11 search loop (parcel_tw/seven_eleven.py), the public track()    *)
(* dispatch (parcel_tw/track.py) with the FamilyMart and OKMart trackers,  *)
(* and the response adapters.                                              *)
(*                                                                         *)
(* Texts are sequences of characters; each character is a short ASCII      *)
(* name (the carriers' texts are Chinese).  Identifiers and codes that are *)
(* only compared or measured are strings.  Python's None is a record or a  *)
(* flag that says so; a dict is a function from its keys.                  *)
(***************************************************************************)
EXTENDS Integers, Sequences, FiniteSets, TLC

(***************************************************************************)
(* Bounds of the model.                                                    *)
(***************************************************************************)
MaxLookups == 2
MaxContainers == 2
MaxCalls == 2
MaxRetryArg == 2

(***************************************************************************)
(* Texts.                                                                  *)
(***************************************************************************)
White == {" ", "NL"}

RECURSIVE StripOf(_, _)
\* s.strip(chars)
StripOf(s, chars) ==
    IF s # <<>> /\ Head(s) \in chars THEN StripOf(Tail(s), chars)
    ELSE IF s # <<>> /\ s[Len(s)] \in chars THEN StripOf(SubSeq(s, 1, Len(s) - 1), chars)
    ELSE s

\* str.strip()
Strip(s) == StripOf(s, White)

RECURSIVE ReplaceAll(_, _)
\* s.replace(k, ""), k not empty
ReplaceAll(s, k) ==
    IF Len(s) < Len(k) THEN s
    ELSE IF SubSeq(s, 1, Len(k)) = k
    THEN ReplaceAll(SubSeq(s, Len(k) + 1, Len(s)), k)
    ELSE <<Head(s)>> \o ReplaceAll(Tail(s), k)

\* k in s, for two str
Contains(s, k) ==
    \E i \in 0..(Len(s) - Len(k)) : SubSeq(s, i + 1, i + Len(k)) = k

\* re.search(r"'(.*?)'", s): the text between the first quote and the next one
HasQuoted(s) ==
    \E i \in 1..Len(s) : \E j \in (i + 1)..Len(s) : s[i] = "'" /\ s[j] = "'"

QuotedPart(s) ==
    IF HasQuoted(s)
    THEN LET first == CHOOSE i \in 1..Len(s) :
                          s[i] = "'" /\ \A h \in 1..(i - 1) : s[h] # "'"
             next == CHOOSE j \in (first + 1)..Len(s) :
                          s[j] = "'" /\ \A h \in (first + 1)..(j - 1) : s[h] # "'"
         IN  SubSeq(s, first + 1, next - 1)
    ELSE <<>>

(***************************************************************************)
(* Results of a lookup: None, a TrackingInfo, an exception that reached    *)
(* the caller, the raw data of a request handler.                          *)
(***************************************************************************)
Pending == [kind |-> "pending"]
NoneResult == [kind |-> "none"]
Raised(exc, msg) == [kind |-> "raised", exc |-> exc, msg |-> msg]
DataResult(d) == [kind |-> "data", data |-> d]

TrackingInfoFields ==
    {"order_id", "platform", "status", "time", "is_delivered", "raw_data"}

\* The dataclass's generated __init__: the keywords must be its fields.
TrackingInfo(kw) ==
    IF DOMAIN kw = TrackingInfoFields
    THEN [kind |-> "info", order_id |-> kw.order_id, platform |-> kw.platform,
          status |-> kw.status, time |-> kw.time,
          is_delivered |-> kw.is_delivered, raw_data |-> kw.raw_data]
    ELSE Raised("TypeError", <<"TrackingInfo.__init__", "keywords">>)

(***************************************************************************)
(* HCT: the messages of the exceptions get_data raises.                    *)
(***************************************************************************)
\* A variant of MAX_ATTEMPTS: one attempt more.
MoreAttempts == 5 + 1

\* line 17
MAX_ATTEMPTS == 5

MsgExhausted == "max attempts exceeded, no valid captcha"
MsgNoContinuation == "no/chk not found"

ErrorMsg(text, detail) == <<text, detail>>

\* What the transport raises (requests' own messages).
TransportErrors == {"ConnectionError", "Timeout"}

StatusText(s) == CASE s = 200 -> "200" [] s = 302 -> "302" [] OTHER -> "500"


VARIABLES
    \* ---- HCT (parcel_tw/hct.py) ----
    hpc,            \* where the lookup is: idle, page, image, ocr, post, final, convert, done
    hVia,           \* TRUE: HctTracker.track_status; FALSE: get_data of a handler the caller built
    hReuse,         \* HctRequestHandler.reuse_session
    hTn,            \* tracking_number
    hAttempt,       \* attempt of _get_captcha_and_tokens's loop
    hSession,       \* HctRequestHandler.session: <<lookup, n>>, the n-th session of that lookup
    hSessCount,     \* sessions created in this lookup
    hTokens,        \* tokens (local of _get_captcha_and_tokens, then of get_data)
    hCaptcha,       \* captcha (likewise)
    hSeen,          \* the page body last parsed, the image last passed on and the OCR result last read, with their attempts
    hPageGets,      \* GETs of SEARCH_URL in this lookup
    hImgGets,       \* GETs of the captcha image in this lookup
    hOcrCalls,      \* calls of ocr.classification in this lookup
    hResets,        \* calls of _reset_session_if_needed in this lookup
    hDelays,        \* calls of _random_delay in this lookup
    hShapeFails,    \* attempts of this lookup that failed the 4-character check
    hOtherFails,    \* attempts of this lookup that failed earlier
    hPosts,         \* POSTs to SEARCH_URL in this lookup
    hFinals,        \* POSTs to RESULT_URL in this lookup
    hMiddle,        \* middle_data, the payload of the primary POST
    hCont,          \* the no and chk inputs of the intermediate response
    hMiddleResp,    \* what the primary POST gave: unsent, exception, bad_response, page
    hUsed,          \* the session each kind of request last went through
    hData,          \* what get_data returned
    hResult,        \* what the call returned or raised
    hErrLog,        \* what track_status gave logging.error in this lookup
    hTrackingInfo,  \* HctTracker.tracking_info
    hLookups,       \* lookups started on this tracker
    \* ---- track(), SevenElevenTracker, OKMartTracker, FamilyMartTracker ----
    tpc,            \* idle, se_page, se_image, se_post, ok_validate, ok_result, fm_post, done
    tEntry,         \* the call: "track" (track.py), "new" (a tracker the caller built), "again" (the same tracker)
    tArgs,          \* the two arguments of track, as given
    tCls,           \* the class of the tracker, "none" when none was built
    tOrder,         \* order_id as the tracker's operation received it
    tMaxRetry,      \* SevenElevenTracker.max_retry
    tRetry,         \* retry_counter of SevenElevenTracker.search
    tPage,          \* the search page of this iteration (7-11)
    tPayload,       \* the payload of the last POST built (7-11)
    tRaw,           \* raw_data
    tHtml,          \* the page the POST of this iteration was answered with (7-11)
    tCode,          \* validate_code (OKMart)
    tPageGets,      \* GETs of the 7-11 search page in this call
    tImgGets,       \* GETs of the 7-11 validate image in this call
    tPosts,         \* POSTs of the 7-11 search in this call
    tReqs,          \* requests of the OKMart or FamilyMart tracker in this call
    tResult,        \* what the call returned or raised
    tErrLog,        \* what the tracker gave logging.error in this call
    tInfo,          \* the tracker's tracking_info attribute
    tCalls          \* calls made

hctVars ==
    <<hpc, hVia, hReuse, hTn, hAttempt, hSession, hSessCount, hTokens, hCaptcha,
      hSeen, hPageGets, hImgGets, hOcrCalls, hResets, hDelays, hShapeFails, hOtherFails,
      hPosts, hFinals, hMiddle, hCont, hMiddleResp, hUsed, hData, hResult,
      hErrLog,
      hTrackingInfo, hLookups>>

\* An adapter's convert, applied to one payload.
VARIABLES
    cpc,        \* "idle", "ready" (the payload is there), "done"
    cIn,        \* the carrier, the tracking number and the raw payload
    cResult     \* what convert returned or raised

trackVars ==
    <<tpc, tEntry, tArgs, tCls, tOrder, tMaxRetry, tRetry, tPage, tPayload, tRaw,
      tHtml, tCode, tPageGets, tImgGets, tPosts, tReqs, tResult, tErrLog, tInfo,
      tCalls>>

convVars == <<cpc, cIn, cResult>>

vars == <<hctVars, trackVars, convVars>>

(***************************************************************************)
(* HCT: what the server and the OCR may answer.                            *)
(***************************************************************************)
TrackingNumbers == {"TN1", "TN2"}

\* A hidden input of a page: no such tag, a tag without a (non-empty) value,
\* or its value.
NoTag == "notag"
NoValue == "novalue"
NoneVal == "None"

HctPage(vs, vsg, ev, img) ==
    [empty |-> FALSE, vs |-> vs, vsg |-> vsg, ev |-> ev, img |-> img]

HctPages ==
    {HctPage("VS1", "G1", "E1", "src"), HctPage("VS2", NoTag, NoValue, "src"),
     HctPage("VS1", NoValue, "E1", "src"), HctPage("VS2", "G1", NoTag, "src"),
     HctPage(NoTag, "G1", "E1", "src"), HctPage(NoValue, "G1", "E1", "src"),
     HctPage("VS1", "G1", "E1", "notag"), HctPage("VS2", "G1", "E1", "nosrc")}

EmptyBody == [empty |-> TRUE, vs |-> NoTag, vsg |-> NoTag, ev |-> NoTag, img |-> "notag"]

SomePage == [empty |-> FALSE, vs |-> "VS1", vsg |-> "G1", ev |-> "E1", img |-> "src"]

HctPageResponses ==
    {[status |-> 302, body |-> EmptyBody], [status |-> 302, body |-> SomePage],
     [status |-> 500, body |-> SomePage], [status |-> 200, body |-> EmptyBody]}
    \cup {[status |-> 200, body |-> p] : p \in HctPages}

\* The image response: its status and whether it has content.
HctImageResponses == [status : {200, 500}, content : BOOLEAN]

\* What ocr.classification returns: a str, or something that is no str.
OcrResults ==
    {[isStr |-> FALSE, val |-> <<>>],
     [isStr |-> TRUE, val |-> <<"a", "b", "c">>],
     [isStr |-> TRUE, val |-> <<"a", "b", "c", "d">>],
     [isStr |-> TRUE, val |-> <<" ", "w", "x", "y", "z", "NL">>],
     [isStr |-> TRUE, val |-> <<"a", "b", "c", "d", "e">>]}

\* The intermediate page: its no and chk inputs.
HctMiddlePages ==
    {[no |-> "N1", chk |-> "K1"], [no |-> NoTag, chk |-> "K1"],
     [no |-> "N1", chk |-> NoTag], [no |-> NoValue, chk |-> "K1"],
     [no |-> "N1", chk |-> NoValue]}

HctMiddleResponses ==
    {[status |-> 500, content |-> TRUE, page |-> [no |-> "N1", chk |-> "K1"]],
     [status |-> 200, content |-> FALSE, page |-> [no |-> NoTag, chk |-> NoTag]]}
    \cup {[status |-> 200, content |-> TRUE, page |-> p] : p \in HctMiddlePages}

(***************************************************************************)
(* HctRequestHandler._extract_tokens and _find_captcha_img                 *)
(***************************************************************************)
NoTokens == [isNone |-> TRUE, vs |-> NoneVal, vsg |-> NoneVal, ev |-> NoneVal]

HasValue(input) == input \notin {NoTag, NoValue}

_extract_tokens(page) ==
    IF ~HasValue(page.vs)
    THEN NoTokens
    ELSE [isNone |-> FALSE,
          vs |-> page.vs,
          vsg |-> IF HasValue(page.vsg) THEN page.vsg ELSE NoneVal,
          ev |-> IF HasValue(page.ev) THEN page.ev ELSE NoneVal]

\* not tokens or not img_tag or not img_tag.get("src")
PageUnusable(tokens, page) == tokens.isNone \/ page.img # "src"

\* A variant of BadImage: only the status of the image response is tested.
BadImageStatusOnly(r) == r.status # 200

\* img_resp.status_code != 200 or not img_resp.content
BadImage(r) == r.status # 200 \/ ~r.content

\* isinstance(captcha, str): captcha = captcha.strip()
Stripped(r) == IF r.isStr THEN [isStr |-> TRUE, val |-> Strip(r.val)] ELSE r

\* A variant of ShapeOk: a minimum length in place of the exact one.
ShapeAtLeastFour(c) == c.isStr /\ Len(c.val) >= 4

\* isinstance(captcha, str) and len(captcha) == 4
ShapeOk(c) == c.isStr /\ Len(c.val) = 4

NoCaptcha == [isStr |-> FALSE, val |-> <<>>]

NoImage == [status |-> 0, content |-> FALSE]

NothingSeen ==
    [page |-> EmptyBody, pageAt |-> 0, img |-> NoImage, imgAt |-> 0,
     ocr |-> NoCaptcha, ocrAt |-> 0]

\* middle_data of get_data
NoDict == ("unset" :> TRUE)

MiddleData(tokens, tn, captcha) ==
    (("__VIEWSTATE" :> tokens.vs) @@ ("txtpKey" :> tn)
        @@ ("txt_chk" :> captcha.val) @@ ("Button1" :> "query"))
    @@ (IF tokens.vsg # NoneVal THEN ("__VIEWSTATEGENERATOR" :> tokens.vsg) ELSE <<>>)
    @@ (IF tokens.ev # NoneVal THEN ("__EVENTVALIDATION" :> tokens.ev) ELSE <<>>)


(***************************************************************************)
(* HctTrackingInfoAdapter.convert.  The final page is the sequence of its  *)
(* div.grid-container elements: the text of col_optime, whether col_state  *)
(* holds a span.linkInv, that span's text and its onmouseover attribute    *)
(* (attr: whether it has one), the texts of col_count and col_office.      *)
(***************************************************************************)
HctPlatform == "Hct"

Delivered == <<"yi", "song", "da">>        \* the status text "delivered"
InTransit == <<"pei", "song", "zhong">>    \* the status text "in transit"
KwSongDa == <<"song", "da">>               \* the keyword convert looks for

HctContainer(time, span, state, attr, mo, count, office) ==
    [time |-> time, span |-> span, state |-> state,
     mo |-> [attr |-> attr, val |-> mo], count |-> count, office |-> office]

\* re.search on the None that span.get("onmouseover") gives without the attribute
HctContainerRaises(c) == c.span /\ ~c.mo.attr

\* lines 215-234: the record of a container
HctRecord(c) ==
    LET state_text == IF c.span THEN Strip(c.state) ELSE <<>>
        tooltip_text == IF c.span THEN QuotedPart(c.mo.val) ELSE <<>>
    IN  [optime |-> Strip(c.time),
         state |-> Strip(state_text \o <<"NL">> \o tooltip_text),
         count |-> ReplaceAll(Strip(c.count), <<"jian">>),
         office |-> Strip(c.office)]

RECURSIVE HctRecords(_)
\* the records of the containers whose time text is not empty
HctRecords(html) ==
    IF html = <<>> THEN <<>>
    ELSE IF Strip(Head(html).time) # <<>>
         THEN <<HctRecord(Head(html))>> \o HctRecords(Tail(html))
         ELSE HctRecords(Tail(html))

\* A variant of HctLatest: the last record of the page.
HctLast(records) == records[Len(records)]

\* line 236: latest = records[0]
HctLatest(records) == records[1]

HctConvert(tracking_number, raw_data) ==
    IF \E i \in 1..Len(raw_data.html) : HctContainerRaises(raw_data.html[i])
    THEN Raised("TypeError", <<"re.search", "expected string">>)
    ELSE LET records == HctRecords(raw_data.html) IN
         IF records = <<>> THEN NoneResult
         ELSE TrackingInfo(
                [order_id |-> tracking_number,
                 platform |-> HctPlatform,
                 status |-> HctLatest(records).state,
                 time |-> HctLatest(records).optime,
                 is_delivered |-> Contains(HctLatest(records).state, KwSongDa),
                 raw_data |-> records])

\* The final pages the server of this model answers with.
CDelivered ==
    HctContainer(<<"T2">>, TRUE, Delivered, TRUE, <<"f", "'", "tip", "'">>,
                 <<"1", "jian">>, <<"OFF">>)
CTransit ==
    HctContainer(<<" ", "T1">>, TRUE, InTransit, TRUE, <<"f">>, <<>>, <<>>)
CNoTime == HctContainer(<<" ">>, FALSE, <<>>, FALSE, <<>>, <<>>, <<>>)
CNoAttr == HctContainer(<<"T1">>, TRUE, Delivered, FALSE, <<>>, <<>>, <<>>)

HctFinalHtmls ==
    LET bare == HctContainer(<<>>, TRUE, InTransit, FALSE, <<>>, <<>>, <<>>)
    IN  {<<>>, <<CNoTime>>, <<CDelivered>>, <<CTransit, CDelivered>>, <<CNoAttr>>,
         <<bare>>}

HctFinalResponses ==
    {[status |-> 500, html |-> <<>>]}
    \cup {[status |-> 200, html |-> h] : h \in HctFinalHtmls}


(***************************************************************************)
(* track(), the factory and the trackers it builds.                        *)
(***************************************************************************)
\* The members of Platform that the sources name.
Platforms ==
    {"Platform.SevenEleven", "Platform.FamilyMart", "Platform.OKMart",
     "Platform.Hct", "Platform.Shopee"}

\* Order identifiers, of the lengths 0, 7, ..., 13.
OrderIds ==
    {"", "1234567", "12345678", "123456789", "1234567890", "12345678901",
     "123456789012", "1234567890123"}

TrackerClasses == {"SevenElevenTracker", "FamilyMartTracker", "OKMartTracker"}

\* The lookup operations each tracker class defines.
Methods(cls) ==
    CASE cls = "SevenElevenTracker" -> {"search"}
      [] cls = "FamilyMartTracker" -> {"track_status"}
      [] cls = "OKMartTracker" -> {"search"}
      [] OTHER -> {}

\* The platforms TrackerFactory.create has a case for.
AcceptedPlatforms == {"Platform.SevenEleven", "Platform.FamilyMart", "Platform.OKMart"}

\* A factory whose last case builds a tracker instead of raising.
CreateWithDefault(platform) ==
    CASE platform = "Platform.SevenEleven" -> "SevenElevenTracker"
      [] platform = "Platform.OKMart" -> "OKMartTracker"
      [] OTHER -> "FamilyMartTracker"

\* TrackerFactory.create: the class it builds, "none" when it raises ValueError
Create(platform) ==
    CASE platform = "Platform.SevenEleven" -> "SevenElevenTracker"
      [] platform = "Platform.FamilyMart" -> "FamilyMartTracker"
      [] platform = "Platform.OKMart" -> "OKMartTracker"
      [] OTHER -> "none"

\* track.py line 24: the operation track calls on the tracker
TrackOperation == "search"

DefaultMaxRetry == 5

NoneOpt == [isNone |-> TRUE]
Some(v) == [isNone |-> FALSE, v |-> v]

\* tracking_info after __init__: SevenElevenTracker.__init__ sets none
InitialInfo(cls) ==
    IF cls = "SevenElevenTracker" THEN [kind |-> "unset"] ELSE NoneResult

(***************************************************************************)
(* SevenElevenTracker                                                      *)
(***************************************************************************)
\* A validation that only rejects identifiers longer than 12.
ValidateAtMostTwelve(order_id) == Len(order_id) <= 12

\* _validate_order_id
_validate_order_id(order_id) ==
    Len(order_id) = 8 \/ Len(order_id) = 11 \/ Len(order_id) = 12

MsgCaptchaError == "captcha error!!"

\* The search page: its hidden inputs and whether it holds the image's src.
SePages ==
    {[vs |-> "VS1", vsg |-> "G1", img |-> TRUE],
     [vs |-> NoTag, vsg |-> NoTag, img |-> TRUE],
     [vs |-> "VS1", vsg |-> "G1", img |-> FALSE]}

NoSePage == [vs |-> NoTag, vsg |-> NoTag, img |-> FALSE]

\* _get_payload_value: tag.get("value"), or None
_get_payload_value(input) == IF input = NoTag THEN NoneVal ELSE input

\* _construct_payload, lines 83-93
SePayload(page, order_id, code) ==
    ("__EVENTTARGET" :> "submit") @@ ("__EVENTARGUMENT" :> "")
    @@ ("__VIEWSTATE" :> _get_payload_value(page.vs))
    @@ ("__VIEWSTATEGENERATOR" :> _get_payload_value(page.vsg))
    @@ ("txtProductNum" :> order_id) @@ ("tbChkCode" :> code)
    @@ ("txtIMGName" :> "") @@ ("txtPage" :> 1)

\* What pytesseract reads from the image (digits, stripped).
SeCodes == {"", "1234"}

\* The response page of the POST: a script with alert('msg'), a script with
\* an alert( of another form, span#lbMsg, div.m_news, div.info and its spans.
DateTimes == {"DT1", "DT2"}

SeHtml(script, alertMsg, lbMsg, news, infoTag, spans) ==
    [script |-> script, alertMsg |-> alertMsg, lbMsg |-> lbMsg, news |-> news,
     infoTag |-> infoTag, spans |-> spans]

SeHtmls ==
    LET arrived == <<"bao", "guo", "pei", "da", "qu", "jian", "men", "shi">>
        query_no == ("query_no" :> "Q1")
        other == ("servicetype" :> "S")
    IN  {SeHtml("alert", MsgCaptchaError, NoTag, <<>>, FALSE, other),
         SeHtml("alert", "no such order", NoTag, <<>>, FALSE, other),
         SeHtml("alert_other", "", NoTag, <<>>, FALSE, other),
         SeHtml("none", "", "no such order", <<>>, FALSE, other),
         SeHtml("none", "", NoTag, arrived \o <<"DT1">>, TRUE, query_no),
         SeHtml("none", "", NoTag, arrived, TRUE, query_no),
         SeHtml("none", "", NoTag, <<"yun", "song", "DT1", "DT2">>, TRUE, other),
         SeHtml("none", "", NoTag, <<>>, FALSE, other)}

\* No response page was received in this iteration.
NoSeHtml == SeHtml("unset", "", NoTag, <<>>, FALSE, ("servicetype" :> "S"))

SeResult(msg, news, info) == [msg |-> msg, m_news |-> news, info |-> info]

\* SevenElevenResponseParser.parse; _extract_alert_message raises IndexError
\* on a script whose alert( is not alert('
SeParseRaises(html) == html.script = "alert_other"

SeParse(html) ==
    IF html.script = "alert"
    THEN SeResult(html.alertMsg, NoneOpt, NoneOpt)
    ELSE IF html.lbMsg # NoTag
    THEN SeResult(html.lbMsg, NoneOpt, NoneOpt)
    ELSE SeResult("success", Some(html.news),
                  Some(IF html.infoTag THEN html.spans ELSE <<>>))

\* A variant of _captcha_error: every message but "success" counts.
AnyErrorIsCaptcha(raw_data) == raw_data.v.msg # "success"

\* _captcha_error
_captcha_error(raw_data) == raw_data.v.msg = MsgCaptchaError

\* re.match(r"(.*)(\d{4}/\d{2}/\d{2} \d{2}:\d{2}:\d{2})", m_news): (.*) is
\* greedy, so the time is the last date-time of the text and the status is
\* what stands before it.
NewsMatches(news) == \E i \in 1..Len(news) : news[i] \in DateTimes

NewsTimeAt(news) ==
    CHOOSE i \in 1..Len(news) :
        news[i] \in DateTimes /\ \A j \in (i + 1)..Len(news) : news[j] \notin DateTimes

\* line 142: "parcel arrived at the pick-up store", "parcel picked up"
SeKeywords ==
    {<<"bao", "guo", "pei", "da", "qu", "jian", "men", "shi">>,
     <<"yi", "wan", "cheng", "bao", "guo", "cheng", "gong", "qu", "jian">>}

\* SevenElevenTracker._convert_to_tracking_info
SeConvert(raw_data) ==
    IF raw_data.isNone \/ raw_data.v.info.isNone
    THEN NoneResult
    ELSE IF "query_no" \notin DOMAIN raw_data.v.info.v
    THEN Raised("KeyError", <<"query_no">>)
    ELSE IF ~NewsMatches(raw_data.v.m_news.v)
    THEN NoneResult
    ELSE LET news == raw_data.v.m_news.v
             status == SubSeq(news, 1, NewsTimeAt(news) - 1)
         IN  TrackingInfo(
                [order_id |-> raw_data.v.info.v["query_no"],
                 platform |-> "7-11",
                 status |-> status,
                 time |-> news[NewsTimeAt(news)],
                 is_delivered |->
                     (\E k \in SeKeywords : Contains(status, k)),
                 raw_data |-> raw_data.v])

(***************************************************************************)
(* OKMartTracker                                                           *)
(***************************************************************************)
\* The Set-Cookie header of the validate response: absent, or with this code
\* before "; path=/".
OkCookies == {NoTag, "", "AB12C", "AB12CD"}

\* re.search(r"ValidateNumber=code=(.....); path=/", cookie)
OkCodeMatches(cookie) == Len(cookie) = 5

\* The status texts: "arrived" and "picked up" stand for the two texts of
\* line 66, "shipping" for any other.

\* OKMartResponseParser.parse: the texts by class name, None where no tag is
OkParsed(odNo, status) ==
    [triNo |-> NoneVal, odNo |-> odNo, type |-> NoneVal, status |-> status,
     stNo |-> NoneVal, stNm |-> NoneVal, stNm2 |-> NoneVal, takeFrom |-> NoneVal,
     takeTo |-> NoneVal, takeAt |-> NoneVal, taker |-> NoneVal]

OkPages ==
    {OkParsed(NoneVal, NoneVal), OkParsed("OD1", "arrived"), OkParsed("OD1", "picked up"),
     OkParsed("OD2", "shipping"), OkParsed("OD2", NoneVal)}

\* OKMartTracker._convert_to_tracking_info
OkConvert(raw_data) ==
    IF raw_data.odNo = NoneVal
    THEN NoneResult
    ELSE TrackingInfo(
            [order_id |-> raw_data.odNo,
             platform |-> "OKMart",
             time |-> NoneVal,
             status |-> raw_data.status,
             is_arrived |-> (raw_data.status = "arrived" \/ raw_data.status = "picked up"),
             raw_data |-> raw_data])

(***************************************************************************)
(* FamilyMartTracker                                                       *)
(***************************************************************************)
FmPlatform == "FamilyMart"

\* line 78: "parcel arrived at the pick-up store", "pick-up completed"
FmKeywords ==
    {<<"huo", "jian", "pei", "da", "qu", "jian", "dian", "pu">>,
     <<"yi", "wan", "cheng", "qu", "jian">>}

FmEntry(no, date, status) ==
    ("ORDER_NO" :> no) @@ ("ORDER_DATE_R" :> date) @@ ("STATUS_D" :> status)

RECURSIVE SeqsUpTo(_, _)
\* the sequences over S of length at most n
SeqsUpTo(S, n) ==
    IF n = 0 THEN {<<>>}
    ELSE SeqsUpTo(S, n - 1)
         \cup {<<x>> \o q : x \in S, q \in {r \in SeqsUpTo(S, n - 1) : Len(r) = n - 1}}

\* What _parse_response returns: the JSON object, with or without "List".
FmJsons ==
    LET entries ==
        {FmEntry("F1", <<"D2", "10:30">>,
                 <<"huo", "jian", "pei", "da", "qu", "jian", "dian", "pu">>),
         FmEntry("F1", <<"D3", "09:00">>, <<"yi", "wan", "cheng", "qu", "jian", "!">>),
         FmEntry("F2", <<"D1", "08:15">>, <<"pei", "song", "zhong">>),
         ("ORDER_NO" :> "F1")}
    IN  {("List" :> l) : l \in SeqsUpTo(entries, MaxContainers)}
        \cup {("Message" :> "error")}

\* FamilyMartTrackingInfoAdapter.convert
FmConvert(raw_data) ==
    IF "List" \notin DOMAIN raw_data
    THEN Raised("KeyError", <<"List">>)
    ELSE IF Len(raw_data["List"]) = 0
    THEN NoneResult
    ELSE LET latest_status == raw_data["List"][1] IN
         IF ~({"ORDER_NO", "ORDER_DATE_R", "STATUS_D"} \subseteq DOMAIN latest_status)
         THEN Raised("KeyError", <<"ORDER_DATE_R">>)
         ELSE TrackingInfo(
                [order_id |-> latest_status["ORDER_NO"],
                 platform |-> FmPlatform,
                 status |-> latest_status["STATUS_D"],
                 time |-> latest_status["ORDER_DATE_R"] \o <<":00">>,
                 is_delivered |->
                     (\E k \in FmKeywords : Contains(latest_status["STATUS_D"], k)),
                 raw_data |-> raw_data])

(***************************************************************************)
(* More of str, and dict.get.                                              *)
(***************************************************************************)
RECURSIVE BeforeFirst(_, _)
\* s.split(ch)[0]
BeforeFirst(s, ch) ==
    IF s = <<>> \/ Head(s) = ch THEN <<>>
    ELSE <<Head(s)>> \o BeforeFirst(Tail(s), ch)

\* d.get(k): the value, None without the key
Get(d, k) == IF k \in DOMAIN d THEN d[k] ELSE NoneOpt

\* bool(x) of a str, a list or None
Truthy(x) == ~x.isNone /\ x.v # <<>>

\* x or y
Or(x, y) == IF Truthy(x) THEN x ELSE y

\* Tracking numbers as convert receives them.
ConvTrackingNumbers == {<<"T", "N", "1">>}

(***************************************************************************)
(* EcanTrackingInfoAdapter                                                 *)
(***************************************************************************)
EcanPlatform == "Ecan"

KwDanHao == <<"dan", "hao">>                       \* the label "waybill number"
\* line 121: the four phrases that mean delivered
EcanKeywords ==
    {<<"pei", "da", "wan", "cheng">>, <<"yi", "song", "da">>,
     <<"wan", "cheng", "pei", "da">>, <<"huo", "jian", "song", "da">>}

\* A tr of tbody.ListStyle01: with a td[colspan="4"] and its text, or with
\* its td cells.
EcanWaybillRow(text) == [colspan4 |-> TRUE, text |-> text, tds |-> <<>>]
EcanCellRow(tds) == [colspan4 |-> FALSE, text |-> <<>>, tds |-> tds]

\* A variant of EcanWaybill: the text after the label, the suffix kept.
EcanWaybillWithSuffix(rows) ==
    LET tds == SelectSeq(rows, LAMBDA r : r.colspan4) IN
    IF tds = <<>> THEN NoneOpt
    ELSE LET txt == Strip(tds[1].text) IN
         IF Contains(txt, KwDanHao)
         THEN Some(Strip(ReplaceAll(ReplaceAll(txt, KwDanHao \o <<"fullwidth:">>),
                                    KwDanHao \o <<":">>)))
         ELSE NoneOpt

\* lines 59-65
EcanWaybill(rows) ==
    LET tds == SelectSeq(rows, LAMBDA r : r.colspan4) IN
    IF tds = <<>> THEN NoneOpt
    ELSE LET txt == Strip(tds[1].text) IN
         IF Contains(txt, KwDanHao)
         THEN Some(BeforeFirst(
                    Strip(ReplaceAll(ReplaceAll(txt, KwDanHao \o <<"fullwidth:">>),
                                     KwDanHao \o <<":">>)),
                    "-"))
         ELSE NoneOpt

EcanDetail(tds) ==
    [date |-> Strip(tds[1]), status |-> Strip(tds[2]), desc |-> Strip(tds[3]),
     station |-> Strip(tds[4]),
     cargo_status |-> Strip(tds[2]) \o <<"(">> \o Strip(tds[4]) \o <<")">>,
     op_time |-> Strip(tds[1]), office |-> Strip(tds[4])]

RECURSIVE EcanDetails(_)
\* lines 68-96
EcanDetails(rows) ==
    IF rows = <<>> THEN <<>>
    ELSE IF Head(rows).colspan4 \/ Len(Head(rows).tds) < 4
         THEN EcanDetails(Tail(rows))
         ELSE <<EcanDetail(Head(rows).tds)>> \o EcanDetails(Tail(rows))

\* line 117 takes the last of the events, the reading of a page that lists
\* the oldest event first
EcanLast(details) == details[Len(details)]
\* line 117: latest = details[0], the page lists the newest event first
EcanLatest(details) == details[1]

\* line 120 reduced to the column named status
EcanStatusOnly(latest) == latest.status
\* line 120: the status and the description of the event, a space between
EcanDeliveredText(latest) == latest.status \o <<" ">> \o latest.desc

\* EcanTrackingInfoAdapter.convert; raw_data.table is NoTag or the rows
EcanConvert(tracking_number, raw_data) ==
    IF ~raw_data.table THEN NoneResult
    ELSE LET waybill == EcanWaybill(raw_data.rows)
             details == EcanDetails(raw_data.rows)
         IN  IF details = <<>> THEN NoneResult
             ELSE LET latest == EcanLatest(details)
                      delivered_text == EcanDeliveredText(latest)
                  IN  TrackingInfo(
                        [order_id |-> IF Truthy(waybill) THEN waybill.v ELSE tracking_number,
                         platform |-> EcanPlatform,
                         status |-> StripOf(latest.status \o <<"(">> \o latest.station
                                            \o <<")", " ", "-", " ">> \o latest.desc,
                                            {" ", "-"}),
                         time |-> latest.date,
                         is_delivered |->
                            (\E k \in EcanKeywords : Contains(delivered_text, k)),
                         raw_data |-> details])

EcanPayloads ==
    LET trs ==
        {EcanWaybillRow(KwDanHao \o <<"fullwidth:", "5", "7", "-", "0", "1">>),
         EcanWaybillRow(<<"5", "7">>),
         EcanCellRow(<<<<"D2", " ", "14:42">>, <<"pei", "da", "wan", "cheng">>, <<"ok">>, <<"S1">>>>),
         EcanCellRow(<<<<"D1", " ", "09:00">>, <<"wan", "cheng">>, <<"pei", "da">>, <<"S2">>>>),
         EcanCellRow(<<<<"D1">>, <<"zhuan", "yun">>, <<>>, <<>>>>),
         EcanCellRow(<<<<"D1">>, <<"zhuan", "yun">>, <<"S3">>>>),
         EcanCellRow(<<<<"2025/12/19", " ", "14:42">>, <<"yi", "song", "da">>, <<>>, <<"S1">>>>),
         EcanCellRow(<<<<"2025/12/18", " ", "09:00">>, <<"qu", "jian", "tong", "zhi">>,
                       <<>>, <<"S2">>>>),
         EcanCellRow(<<<<"D1">>, <<"pei", "song", "zhong">>, <<"huo", "jian", "song", "da">>,
                       <<"S2">>>>)}
    IN  {[table |-> FALSE, rows |-> <<>>]}
        \cup {[table |-> TRUE, rows |-> r] : r \in SeqsUpTo(trs, MaxContainers)}

(***************************************************************************)
(* TcatTrackingInfoAdapter                                                 *)
(***************************************************************************)
TcatPlatform == "Tcat"

\* line 91: the two phrases that mean delivered
TcatKeywords == {<<"pei", "da", "wan", "cheng">>, <<"song", "da">>}

\* A tr of .tablelist: the text of its td .bl12 if it has one, and the texts
\* of its td.style1 cells.
TcatRow(hasWaybill, waybill, cols) ==
    [hasWaybill |-> hasWaybill, waybill |-> waybill, cols |-> cols]

RECURSIVE TcatLastWaybill(_, _)
\* lines 59-64: the text of the last td .bl12 of the body rows
TcatLastWaybill(rows, waybill) ==
    IF rows = <<>> THEN waybill
    ELSE TcatLastWaybill(Tail(rows),
            IF Head(rows).hasWaybill THEN Some(Strip(Head(rows).waybill)) ELSE waybill)

TcatDetail(cols) ==
    [cargo_status |-> Strip(cols[1]) \o <<"(">> \o Strip(cols[3]) \o <<")">>,
     op_time |-> Strip(cols[2]),
     office |-> Strip(cols[3])]

RECURSIVE TcatDetails(_)
\* lines 61-80
TcatDetails(rows) ==
    IF rows = <<>> THEN <<>>
    ELSE IF Len(Head(rows).cols) < 3
         THEN TcatDetails(Tail(rows))
         ELSE <<TcatDetail(Head(rows).cols)>> \o TcatDetails(Tail(rows))

\* TcatTrackingInfoAdapter.convert
TcatConvert(tracking_number, raw_data) ==
    IF ~raw_data.table THEN NoneResult
    ELSE IF Len(raw_data.rows) <= 1 THEN NoneResult
    ELSE LET body_rows == Tail(raw_data.rows)
             details == TcatDetails(body_rows)
             waybill == TcatLastWaybill(body_rows, NoneOpt)
         IN  IF details = <<>> THEN NoneResult
             ELSE LET latest == details[1] IN
                  TrackingInfo(
                    [order_id |-> IF Truthy(waybill) THEN waybill.v ELSE tracking_number,
                     platform |-> TcatPlatform,
                     status |-> latest.cargo_status,
                     time |-> latest.op_time,
                     is_delivered |->
                        (\E k \in TcatKeywords : Contains(latest.cargo_status, k)),
                     raw_data |-> details])

TcatPayloads ==
    LET trs ==
        {TcatRow(FALSE, <<>>, <<<<"h1">>, <<"h2">>, <<"h3">>>>),
         TcatRow(TRUE, <<" ", "9", "0", "1">>,
                 <<<<"pei", "da", "wan", "cheng">>, <<"D2", " ", "10:00">>, <<"S1">>>>),
         TcatRow(FALSE, <<>>, <<<<"zhuan", "yun">>, <<"D1", " ", "08:00">>, <<"S2">>>>),
         TcatRow(TRUE, <<>>, <<<<"zhuan", "yun">>, <<"D1">>>>),
         TcatRow(FALSE, <<>>, <<>>)}
    IN  {[table |-> FALSE, rows |-> <<>>]}
        \cup {[table |-> TRUE, rows |-> r] : r \in SeqsUpTo(trs, MaxContainers + 1)}

(***************************************************************************)
(* KtjTrackingInfoAdapter                                                  *)
(***************************************************************************)
KtjPlatform == "Ktj"

\* Time strings are made of the date "2025-12-16", the separators " " and
\* "T", the hour and minute "05:08", the seconds ":33" or ":00", the
\* milliseconds ".000", and other text.


\* strftime("%Y/%m/%d") of the date
Slashed(d) == IF d = "2025-12-16" THEN "2025/12/16" ELSE d

\* re.match(r"^\d{4}-\d{2}-\d{2}T\d{2}:\d{2}$", s)
IsDateHourMinute(s) ==
    Len(s) = 3 /\ s[1] = "2025-12-16" /\ s[2] = "T" /\ s[3] = "05:08"

\* datetime.strptime(s, "%Y-%m-%dT%H:%M:%S") succeeds
IsDateTime(s) ==
    Len(s) = 4 /\ IsDateHourMinute(SubSeq(s, 1, 3)) /\ s[4] \in {":33", ":00"}

\* _normalize_time
_normalize_time(s) ==
    IF ~Truthy(s) THEN NoneOpt
    ELSE LET stripped == Strip(s.v)
             joined == [i \in 1..Len(stripped) |->
                            IF stripped[i] = " " THEN "T" ELSE stripped[i]]
             cut == IF joined # <<>> /\ joined[Len(joined)] = ".000"
                    THEN SubSeq(joined, 1, Len(joined) - 1)
                    ELSE joined
             full == IF IsDateHourMinute(cut) THEN cut \o <<":00">> ELSE cut
         IN  IF IsDateTime(full)
             THEN Some(<<Slashed(full[1]), " ", full[3]>>)
             ELSE Some(full)

KtjKeywords ==
    {<<"qian", "shou">>, <<"pei", "da">>, <<"yi", "song", "da">>,
     <<"yi", "wan", "cheng", "pei", "song">>, <<"yi", "wan", "cheng">>,
     <<"pei", "song", "wan", "cheng">>}

\* lines 113-119
KtjTimeStr(latest) ==
    LET time_str == Get(latest, "processCargoCrtDAteAndTime")
        d == Get(latest, "processCargoCrtDate")
        t == Get(latest, "processCargoCrtTime")
    IN  IF Truthy(time_str) THEN time_str
        ELSE IF Truthy(d) /\ Truthy(t) THEN Some(d.v \o <<"T">> \o t.v)
        ELSE time_str

\* KtjTrackingInfoAdapter.convert
KtjConvert(raw_data) ==
    LET results == Or(Get(raw_data, "result"), Some(<<>>)) IN
    IF results.v = <<>> THEN NoneResult
    ELSE LET item == IF results.v[1].isNone THEN <<>> ELSE results.v[1].v
             course == Or(Get(item, "course"), Some(<<>>))
         IN  IF course.v = <<>> THEN NoneResult
             ELSE IF course.v[1].isNone
             THEN Raised("AttributeError", <<"NoneType", "get">>)
             ELSE LET latest == course.v[1].v
                      status_message ==
                          Strip(Or(Get(latest, "statusIdName"), Some(<<>>)).v)
                  IN  TrackingInfo(
                        [order_id |-> Or(Get(item, "bolNo"), Get(latest, "bolNo")),
                         platform |-> KtjPlatform,
                         status |-> status_message,
                         time |-> _normalize_time(KtjTimeStr(latest)),
                         is_delivered |->
                            (\E k \in KtjKeywords : Contains(status_message, k)),
                         raw_data |-> raw_data])

KtjPayloads ==
    LET events ==
        {Some(("bolNo" :> Some(<<"K", "1">>))
              @@ ("processCargoCrtDAteAndTime"
                    :> Some(<<"2025-12-16", " ", "05:08", ":33", ".000">>))
              @@ ("statusIdName" :> Some(<<" ", "yi", "wan", "cheng", "pei", "song">>))),
         Some(("processCargoCrtDate" :> Some(<<"2025-12-16">>))
              @@ ("processCargoCrtTime" :> Some(<<"05:08">>))
              @@ ("statusIdName" :> Some(<<"yun", "song", "zhong">>))),
         Some(("processCargoCrtDAteAndTime" :> Some(<<"x">>)) @@ ("statusIdName" :> NoneOpt)),
         Some(("processCargoCrtDAteAndTime" :> Some(<<"2025/12/16", " ", "09:14">>))
              @@ ("statusIdName" :> Some(<<"qian", "shou">>))),
         Some(<<>>),
         NoneOpt}
        items ==
            {NoneOpt, Some(<<>>),
             Some(("course" :> NoneOpt) @@ ("bolNo" :> Some(<<"K", "9">>)))}
            \cup {Some(("course" :> Some(c))) : c \in SeqsUpTo(events, MaxContainers)}
            \cup {Some(("course" :> Some(<<e>>)) @@ ("bolNo" :> Some(<<"K", "9">>))) :
                    e \in events}
    IN  {<<>>, ("result" :> NoneOpt), ("result" :> Some(<<>>))}
        \cup {("result" :> Some(<<i>>)) : i \in items}

(***************************************************************************)
(* The payloads convert is applied to.                                     *)
(***************************************************************************)
HctPayloads ==
    LET bare == HctContainer(<<>>, TRUE, InTransit, FALSE, <<>>, <<>>, <<>>)
        containers == {CDelivered, CTransit, CNoTime, CNoAttr, bare}
    IN  {[html |-> h] : h \in SeqsUpTo(containers, MaxContainers)}

ConvertInputs ==
    {[carrier |-> HctPlatform, tn |-> tn, hct |-> d] :
        tn \in ConvTrackingNumbers, d \in HctPayloads}
    \cup {[carrier |-> EcanPlatform, tn |-> tn, ecan |-> d] :
        tn \in ConvTrackingNumbers, d \in EcanPayloads}
    \cup {[carrier |-> TcatPlatform, tn |-> tn, tcat |-> d] :
        tn \in ConvTrackingNumbers, d \in TcatPayloads}
    \cup {[carrier |-> KtjPlatform, ktj |-> d] : d \in KtjPayloads}
    \cup {[carrier |-> FmPlatform, fm |-> d] : d \in FmJsons}

\* convert returns or raises
Converted(result) ==
    /\ cpc = "ready"
    /\ cpc' = "done"
    /\ cResult' = result
    /\ UNCHANGED <<cIn, hctVars, trackVars>>

ConvertHct ==
    /\ cIn.carrier = HctPlatform
    /\ Converted(HctConvert(cIn.tn, cIn.hct))

ConvertEcan ==
    /\ cIn.carrier = EcanPlatform
    /\ Converted(EcanConvert(cIn.tn, cIn.ecan))

ConvertTcat ==
    /\ cIn.carrier = TcatPlatform
    /\ Converted(TcatConvert(cIn.tn, cIn.tcat))

ConvertKtj ==
    /\ cIn.carrier = KtjPlatform
    /\ Converted(KtjConvert(cIn.ktj))

ConvertFamilyMart ==
    /\ cIn.carrier = FmPlatform
    /\ Converted(FmConvert(cIn.fm))

ConvertNext ==
    \/ ConvertHct
    \/ ConvertEcan
    \/ ConvertTcat
    \/ ConvertKtj
    \/ ConvertFamilyMart

(***************************************************************************)
(* track() and the trackers: the calls, step by step.                      *)
(***************************************************************************)
TrackInit ==
    /\ tpc = "idle"
    /\ tEntry = "none"
    /\ tArgs = <<"", "">>
    /\ tCls = "none"
    /\ tOrder = ""
    /\ tMaxRetry = DefaultMaxRetry
    /\ tRetry = 0
    /\ tPage = NoSePage
    /\ tPayload = NoDict
    /\ tRaw = NoneOpt
    /\ tHtml = NoSeHtml
    /\ tCode = ""
    /\ tPageGets = 0
    /\ tImgGets = 0
    /\ tPosts = 0
    /\ tReqs = 0
    /\ tResult = Pending
    /\ tErrLog = <<>>
    /\ tInfo = NoneResult
    /\ tCalls = 0

\* The call ends: what it returns or raises, and tracking_info after it.
TrackEnds(result, info) ==
    /\ tpc' = "done"
    /\ tResult' = result
    /\ tInfo' = info

\* self.tracking_info = convert(...); return self.tracking_info: an exception
\* of convert leaves the attribute as it was.
TrackConverts(result, info) ==
    TrackEnds(result, IF result.kind = "raised" THEN info ELSE result)

\* A variant of SeLoop: the loop goes on while retry_counter <= max_retry.
SeLoopOneMore(retry, raw, maxRetry, info) ==
    IF retry <= maxRetry
    THEN tpc' = "se_page" /\ tResult' = Pending /\ tInfo' = info
    ELSE TrackConverts(SeConvert(raw), info)

\* search, lines 33 and 64-65: the next iteration, or the end of the loop
SeLoop(retry, raw, maxRetry, info) ==
    IF retry < maxRetry
    THEN tpc' = "se_page" /\ tResult' = Pending /\ tInfo' = info
    ELSE TrackConverts(SeConvert(raw), info)

\* A call begins: nothing requested, nothing received, nothing logged yet.
Fresh ==
    /\ tRetry' = 0
    /\ tRaw' = NoneOpt
    /\ tHtml' = NoSeHtml
    /\ tPage' = NoSePage
    /\ tPayload' = NoDict
    /\ tCode' = ""
    /\ tErrLog' = <<>>
    /\ tPageGets' = 0 /\ tImgGets' = 0 /\ tPosts' = 0 /\ tReqs' = 0

\* The tracker's operation begins with order_id.
Begin(cls, order_id, maxRetry, info) ==
    /\ Fresh
    /\ tOrder' = order_id
    /\ CASE cls = "SevenElevenTracker" ->
               IF ~_validate_order_id(order_id)
               THEN TrackEnds(NoneResult, info)
               ELSE SeLoop(0, NoneOpt, maxRetry, info)
         [] cls = "OKMartTracker" ->
               tpc' = "ok_validate" /\ tResult' = Pending /\ tInfo' = info
         [] OTHER ->
               tpc' = "fm_post" /\ tResult' = Pending /\ tInfo' = info

\* track.py, lines 22-24, called with the arguments in either order:
\* track(platform, order_id) as declared, track(order_id, platform) as the
\* tests call it.
Track ==
    /\ tpc \in {"idle", "done"}
    /\ tCalls < MaxCalls
    /\ tCalls' = tCalls + 1
    /\ tEntry' = "track"
    /\ \E args \in (Platforms \X OrderIds)
                    \cup ({"1234567890", "123456789"} \X Platforms) :
          LET platform == args[1]
              order_id == args[2]
          IN  /\ tArgs' = args
              /\ tCls' = Create(platform)
              /\ tMaxRetry' = DefaultMaxRetry
              /\ IF Create(platform) = "none"
                 THEN /\ TrackEnds(Raised("ValueError", <<"Invalid platform", platform>>),
                                   NoneResult)
                      /\ Fresh
                      /\ tOrder' = ""
                 ELSE IF TrackOperation \notin Methods(Create(platform))
                 THEN /\ TrackEnds(Raised("AttributeError", <<TrackOperation>>),
                                   InitialInfo(Create(platform)))
                      /\ Fresh
                      /\ tOrder' = ""
                 ELSE Begin(Create(platform), order_id, DefaultMaxRetry,
                            InitialInfo(Create(platform)))
    /\ UNCHANGED <<hctVars, convVars>>

\* The caller builds a tracker of its own and calls the lookup operation the
\* class defines.
TrackNew ==
    /\ tpc \in {"idle", "done"}
    /\ tCalls < MaxCalls
    /\ tCalls' = tCalls + 1
    /\ tEntry' = "new"
    /\ \E cls \in TrackerClasses, order_id \in OrderIds, mr \in 0..MaxRetryArg :
          /\ (cls # "SevenElevenTracker") => mr = 0
          /\ tArgs' = <<cls, order_id>>
          /\ tCls' = cls
          /\ tMaxRetry' = IF cls = "SevenElevenTracker" THEN mr ELSE DefaultMaxRetry
          /\ Begin(cls, order_id, mr, InitialInfo(cls))
    /\ UNCHANGED <<hctVars, convVars>>

\* The caller calls the same tracker again.
TrackAgain ==
    /\ tpc = "done"
    /\ tEntry \in {"new", "again"}
    /\ tCalls < MaxCalls
    /\ tCalls' = tCalls + 1
    /\ tEntry' = "again"
    /\ UNCHANGED <<tCls, tMaxRetry>>
    /\ \E order_id \in OrderIds :
          /\ tArgs' = <<tCls, order_id>>
          /\ Begin(tCls, order_id, tMaxRetry, tInfo)
    /\ UNCHANGED <<hctVars, convVars>>

\* 7-11 _get_search_page, with lines 36-41 of search
SeGetPage ==
    /\ tpc = "se_page"
    /\ tPageGets' = tPageGets + 1
    /\ tHtml' = NoSeHtml
    /\ UNCHANGED <<tEntry, tArgs, tCls, tOrder, tMaxRetry, tPayload, tRaw, tCode,
                   tImgGets, tPosts, tReqs, tErrLog, tCalls>>
    /\ \/ /\ \E e \in TransportErrors : TrackEnds(Raised(e, <<e>>), tInfo)
          /\ UNCHANGED <<tRetry, tPage>>
       \/ /\ tRetry' = tRetry + 1
          /\ SeLoop(tRetry + 1, tRaw, tMaxRetry, tInfo)
          /\ UNCHANGED tPage
       \/ \E page \in SePages :
             /\ tPage' = page
             /\ tpc' = "se_image"
             /\ UNCHANGED <<tRetry, tResult, tInfo>>
    /\ UNCHANGED <<hctVars, convVars>>

\* 7-11 _construct_payload: the image, its code, the payload
SeGetImage ==
    /\ tpc = "se_image"
    /\ UNCHANGED <<tEntry, tArgs, tCls, tOrder, tMaxRetry, tRetry, tPage, tRaw, tHtml,
                   tCode, tPageGets, tPosts, tReqs, tErrLog, tCalls>>
    /\ IF ~tPage.img
       THEN /\ TrackEnds(Raised("MissingSchema", <<"Invalid URL ''">>), tInfo)
            /\ UNCHANGED <<tImgGets, tPayload>>
       ELSE /\ tImgGets' = tImgGets + 1
            /\ \/ /\ \E e \in TransportErrors
                                \cup {"UnidentifiedImageError", "TesseractError"} :
                        TrackEnds(Raised(e, <<e>>), tInfo)
                  /\ UNCHANGED tPayload
               \/ \E code \in SeCodes :
                     /\ tPayload' = SePayload(tPage, tOrder, code)
                     /\ tpc' = "se_post"
                     /\ UNCHANGED <<tResult, tInfo>>
    /\ UNCHANGED <<hctVars, convVars>>

\* 7-11 _send_post_request, with lines 46-62 of search
SePost ==
    /\ tpc = "se_post"
    /\ tPosts' = tPosts + 1
    /\ UNCHANGED <<tEntry, tArgs, tCls, tOrder, tMaxRetry, tPage, tPayload, tCode,
                   tPageGets, tImgGets, tReqs, tErrLog, tCalls>>
    /\ \/ /\ \E e \in TransportErrors : TrackEnds(Raised(e, <<e>>), tInfo)
          /\ UNCHANGED <<tRetry, tRaw, tHtml>>
       \/ /\ tRetry' = tRetry + 1
          /\ SeLoop(tRetry + 1, tRaw, tMaxRetry, tInfo)
          /\ UNCHANGED <<tRaw, tHtml>>
       \/ \E html \in SeHtmls :
             /\ tHtml' = html
             /\ IF SeParseRaises(html)
                THEN /\ TrackEnds(Raised("IndexError", <<"list index out of range">>), tInfo)
                     /\ UNCHANGED <<tRetry, tRaw>>
                ELSE /\ tRaw' = Some(SeParse(html))
                     /\ IF _captcha_error(Some(SeParse(html)))
                        THEN /\ tRetry' = tRetry + 1
                             /\ SeLoop(tRetry + 1, Some(SeParse(html)), tMaxRetry, tInfo)
                        ELSE /\ UNCHANGED tRetry
                             /\ TrackConverts(SeConvert(Some(SeParse(html))), tInfo)
    /\ UNCHANGED <<hctVars, convVars>>

\* OKMart _get_validate_code, with lines 23-27 of search
OkGetValidate ==
    /\ tpc = "ok_validate"
    /\ tReqs' = tReqs + 1
    /\ UNCHANGED <<tEntry, tArgs, tCls, tOrder, tMaxRetry, tRetry, tPage, tPayload,
                   tRaw, tHtml, tPageGets, tImgGets, tPosts, tCalls>>
    /\ \/ /\ \E e \in TransportErrors : TrackEnds(Raised(e, <<e>>), tInfo)
          /\ UNCHANGED <<tCode, tErrLog>>
       \/ \E cookie \in OkCookies :
             IF cookie = NoTag
             THEN /\ TrackEnds(Raised("KeyError", <<"Set-Cookie">>), tInfo)
                  /\ UNCHANGED <<tCode, tErrLog>>
             ELSE IF ~OkCodeMatches(cookie)
             THEN /\ TrackEnds(NoneResult, tInfo)
                  /\ tErrLog' = <<"[OKMart] Failed to get validate code">>
                  /\ UNCHANGED tCode
             ELSE /\ tCode' = cookie
                  /\ tpc' = "ok_result"
                  /\ UNCHANGED <<tResult, tInfo, tErrLog>>
    /\ UNCHANGED <<hctVars, convVars>>

\* OKMart _get_search_result, with lines 30-38 of search
OkGetResult ==
    /\ tpc = "ok_result"
    /\ tReqs' = tReqs + 1
    /\ UNCHANGED <<tEntry, tArgs, tCls, tOrder, tMaxRetry, tRetry, tPage, tPayload,
                   tHtml, tCode, tPageGets, tImgGets, tPosts, tErrLog, tCalls>>
    /\ \/ /\ \E e \in TransportErrors : TrackEnds(Raised(e, <<e>>), tInfo)
          /\ UNCHANGED tRaw
       \/ \E page \in OkPages :
             /\ tRaw' = Some(page)
             /\ TrackConverts(OkConvert(page), tInfo)
    /\ UNCHANGED <<hctVars, convVars>>

\* FamilyMartTracker.track_status: get_data inside the try, convert after it
FmPost ==
    /\ tpc = "fm_post"
    /\ tReqs' = tReqs + 1
    /\ UNCHANGED <<tEntry, tArgs, tCls, tOrder, tMaxRetry, tRetry, tPage, tPayload,
                   tHtml, tCode, tPageGets, tImgGets, tPosts, tCalls>>
    /\ \/ /\ \E e \in TransportErrors \cup {"JSONDecodeError"} :
                /\ TrackEnds(NoneResult, tInfo)
                /\ tErrLog' = <<"[FamilyMart]", e>>
          /\ UNCHANGED tRaw
       \/ \E json \in FmJsons :
             /\ tRaw' = Some(json)
             /\ TrackConverts(FmConvert(json), tInfo)
             /\ UNCHANGED tErrLog
    /\ UNCHANGED <<hctVars, convVars>>

TrackNext ==
    \/ Track
    \/ TrackNew
    \/ TrackAgain
    \/ SeGetPage
    \/ SeGetImage
    \/ SePost
    \/ OkGetValidate
    \/ OkGetResult
    \/ FmPost

\* No request of the lookup was sent yet.
NoneUsed == [page |-> <<0, 0>>, image |-> <<0, 0>>, post |-> <<0, 0>>, final |-> <<0, 0>>]

(***************************************************************************)
(* HCT: the lookup, step by step.                                          *)
(***************************************************************************)
HctInit ==
    /\ hpc = "idle"
    /\ hVia = TRUE
    /\ hReuse = FALSE
    /\ hTn = "TN1"
    /\ hAttempt = 0
    /\ hSession = <<0, 0>>
    /\ hSessCount = 0
    /\ hTokens = NoTokens
    /\ hCaptcha = NoCaptcha
    /\ hSeen = NothingSeen
    /\ hPageGets = 0
    /\ hImgGets = 0
    /\ hOcrCalls = 0
    /\ hResets = 0
    /\ hDelays = 0
    /\ hShapeFails = 0
    /\ hOtherFails = 0
    /\ hPosts = 0
    /\ hFinals = 0
    /\ hMiddle = NoDict
    /\ hCont = [no |-> NoTag, chk |-> NoTag]
    /\ hMiddleResp = "unsent"
    /\ hUsed = NoneUsed
    /\ hData = [html |-> <<>>]
    /\ hResult = Pending
    /\ hErrLog = <<>>
    /\ hTrackingInfo = NoneResult
    /\ hLookups = 0

\* A variant of HctStepTo: the backoff delay is taken after every step.
HctStepToWithDelay(next) ==
    /\ hpc' = next
    /\ hDelays' = hDelays + 1
    /\ UNCHANGED <<hAttempt, hSession, hSessCount, hResets,
                   hShapeFails, hOtherFails, hResult, hErrLog, hTrackingInfo>>

\* The step succeeded: on to the next one of the same attempt (after the
\* classification: return tokens, captcha), with no reset and no delay.
HctStepTo(next) ==
    /\ hpc' = next
    /\ UNCHANGED <<hAttempt, hSession, hSessCount, hResets, hDelays,
                   hShapeFails, hOtherFails, hResult, hErrLog, hTrackingInfo>>

\* A variant of TokensAfterPage: tokens once extracted are kept.
KeepEarlierTokens(old, body) == IF old.isNone THEN _extract_tokens(body) ELSE old

\* line 116: tokens = self._extract_tokens(soup)
TokensAfterPage(old, body) == _extract_tokens(body)

\* A variant of ExhaustedError: the message of another failure.
ExhaustedAsNoContinuation == ErrorMsg(MsgNoContinuation, "")

\* line 160
ExhaustedError == ErrorMsg(MsgExhausted, "")

\* A variant of SessionAfterReset: a new session whatever reuse_session says.
AlwaysNewSession(reuse, session, count) == <<session[1], count + 1>>

\* HctRequestHandler._reset_session_if_needed: the session after the call
SessionAfterReset(reuse, session, count) ==
    IF reuse THEN session ELSE <<session[1], count + 1>>

\* A variant of HctRaise: the exception is caught inside get_data and the
\* solver is entered again.
HctRaiseAndRetry(exc, msg) ==
    /\ hpc' = "page"
    /\ hResult' = IF hVia THEN NoneResult ELSE Raised(exc, msg)
    /\ hErrLog' = IF hVia THEN msg ELSE hErrLog
    /\ UNCHANGED hTrackingInfo

\* An exception leaves get_data: track_status logs it and returns None; a
\* direct caller of get_data gets the exception.
HctRaise(exc, msg) ==
    /\ hpc' = "done"
    /\ hResult' = IF hVia THEN NoneResult ELSE Raised(exc, msg)
    /\ hErrLog' = IF hVia THEN msg ELSE hErrLog
    /\ UNCHANGED hTrackingInfo

\* The end of a failed attempt: the warning, _reset_session_if_needed,
\* _random_delay, continue; after the last attempt the loop ends and line 160
\* raises.
HctAttemptFailed(kind) ==
    /\ hResets' = hResets + 1
    /\ hDelays' = hDelays + 1
    /\ hSession' = SessionAfterReset(hReuse, hSession, hSessCount)
    /\ hSessCount' = IF hReuse THEN hSessCount ELSE hSessCount + 1
    /\ hShapeFails' = IF kind = "shape" THEN hShapeFails + 1 ELSE hShapeFails
    /\ hOtherFails' = IF kind = "shape" THEN hOtherFails ELSE hOtherFails + 1
    /\ IF hAttempt < MAX_ATTEMPTS
       THEN /\ hAttempt' = hAttempt + 1
            /\ hpc' = "page"
            /\ UNCHANGED <<hResult, hErrLog, hTrackingInfo>>
       ELSE /\ UNCHANGED hAttempt
            /\ HctRaise("Exception", ExhaustedError)

\* A variant of SessionInUse: the session __init__ made, whatever was reset.
SessionOfInit == <<hSession[1], 1>>

\* self.session, as session.get and session.post read it when they are called
SessionInUse == hSession

\* A variant of ContinuationMissing: only the input named no is looked for.
OnlyNoMissing(page) == page.no = NoTag

\* line 187: if not no_tag or not chk_tag
ContinuationMissing(page) == page.no = NoTag \/ page.chk = NoTag

\* reuse_session: False as track_status builds the handler (line 26), the
\* default True of __init__ (line 37) for a handler built without arguments
HandlerReuse(via) == ~via

\* HctTracker.track_status (via), or get_data of an HctRequestHandler() built
\* by the caller, begins: the handler's __init__ makes its session.
HctStart ==
    /\ hpc \in {"idle", "done"}
    /\ hLookups < MaxLookups
    /\ \E tn \in TrackingNumbers, via \in BOOLEAN :
          /\ hTn' = tn
          /\ hVia' = via
          /\ hReuse' = HandlerReuse(via)
    /\ hLookups' = hLookups + 1
    /\ hSession' = <<hLookups + 1, 1>>
    /\ hSessCount' = 1
    /\ hAttempt' = 1
    /\ hpc' = "page"
    /\ hTokens' = NoTokens
    /\ hCaptcha' = NoCaptcha
    /\ hSeen' = NothingSeen
    /\ hPageGets' = 0 /\ hImgGets' = 0 /\ hOcrCalls' = 0
    /\ hResets' = 0 /\ hDelays' = 0
    /\ hShapeFails' = 0 /\ hOtherFails' = 0
    /\ hPosts' = 0 /\ hFinals' = 0
    /\ hMiddle' = NoDict
    /\ hCont' = [no |-> NoTag, chk |-> NoTag]
    /\ hMiddleResp' = "unsent"
    /\ hUsed' = NoneUsed
    /\ hData' = [html |-> <<>>]
    /\ hResult' = Pending
    /\ hErrLog' = <<>>
    /\ UNCHANGED hTrackingInfo
    /\ UNCHANGED <<trackVars, convVars>>

\* lines 91-123: the GET of the challenge page and what is read from it
HctGetPage ==
    /\ hpc = "page"
    /\ hPageGets' = hPageGets + 1
    /\ UNCHANGED <<hVia, hReuse, hTn, hImgGets, hOcrCalls, hPosts, hFinals,
                   hMiddle, hCont, hMiddleResp, hData, hLookups, hCaptcha>>
    /\ hUsed' = [hUsed EXCEPT !.page = SessionInUse]
    /\ \/ /\ HctAttemptFailed("page_exception")
          /\ UNCHANGED <<hTokens, hSeen>>
       \/ \E r \in HctPageResponses :
             IF 300 <= r.status /\ r.status < 400
             THEN HctAttemptFailed("redirect") /\ UNCHANGED <<hTokens, hSeen>>
             ELSE IF r.status # 200 \/ r.body.empty
             THEN HctAttemptFailed("bad_page") /\ UNCHANGED <<hTokens, hSeen>>
             ELSE /\ hTokens' = TokensAfterPage(hTokens, r.body)
                  /\ hSeen' = [hSeen EXCEPT !.page = r.body, !.pageAt = hAttempt]
                  /\ IF PageUnusable(TokensAfterPage(hTokens, r.body), r.body)
                     THEN HctAttemptFailed("no_token_or_captcha")
                     ELSE HctStepTo("image")
    /\ UNCHANGED <<trackVars, convVars>>

\* lines 125-140: the GET of the captcha image
HctGetImage ==
    /\ hpc = "image"
    /\ hImgGets' = hImgGets + 1
    /\ UNCHANGED <<hVia, hReuse, hTn, hPageGets, hOcrCalls, hPosts, hFinals,
                   hMiddle, hCont, hMiddleResp, hData, hLookups, hCaptcha, hTokens>>
    /\ hUsed' = [hUsed EXCEPT !.image = SessionInUse]
    /\ \/ HctAttemptFailed("image_exception") /\ UNCHANGED hSeen
       \/ \E r \in HctImageResponses :
             IF BadImage(r)
             THEN HctAttemptFailed("bad_image") /\ UNCHANGED hSeen
             ELSE /\ hSeen' = [hSeen EXCEPT !.img = r, !.imgAt = hAttempt]
                  /\ HctStepTo("ocr")
    /\ UNCHANGED <<trackVars, convVars>>

\* lines 142-158: the classification and the check of its shape
HctClassify ==
    /\ hpc = "ocr"
    /\ hOcrCalls' = hOcrCalls + 1
    /\ UNCHANGED <<hVia, hReuse, hTn, hPageGets, hImgGets, hPosts, hFinals,
                   hMiddle, hCont, hMiddleResp, hUsed, hData, hLookups, hTokens>>
    /\ \/ /\ HctAttemptFailed("ocr_exception")
          /\ UNCHANGED <<hCaptcha, hSeen>>
       \/ \E r \in OcrResults :
             /\ hCaptcha' = Stripped(r)
             /\ hSeen' = [hSeen EXCEPT !.ocr = r, !.ocrAt = hAttempt]
             /\ IF ShapeOk(Stripped(r))
                THEN HctStepTo("post")
                ELSE HctAttemptFailed("shape")
    /\ UNCHANGED <<trackVars, convVars>>

\* lines 165-188: the primary POST and the continuation fields
HctPrimaryPost ==
    /\ hpc = "post"
    /\ hMiddle' = MiddleData(hTokens, hTn, hCaptcha)
    /\ hPosts' = hPosts + 1
    /\ hUsed' = [hUsed EXCEPT !.post = SessionInUse]
    /\ UNCHANGED <<hVia, hReuse, hTn, hAttempt, hSession, hSessCount, hTokens,
                   hCaptcha, hSeen, hPageGets, hImgGets, hOcrCalls, hResets, hDelays,
                   hShapeFails, hOtherFails, hFinals, hData, hLookups>>
    /\ \/ /\ \E e \in TransportErrors :
                HctRaise("Exception", ErrorMsg("primary post failed: ", e))
          /\ hMiddleResp' = "exception"
          /\ UNCHANGED hCont
       \/ \E r \in HctMiddleResponses :
             IF r.status # 200 \/ ~r.content
             THEN /\ HctRaise("Exception", ErrorMsg("primary post bad response (status=)", StatusText(r.status)))
                  /\ hMiddleResp' = "bad_response"
                  /\ UNCHANGED hCont
             ELSE IF ContinuationMissing(r.page)
             THEN /\ HctRaise("Exception", ErrorMsg(MsgNoContinuation, ""))
                  /\ hMiddleResp' = "page"
                  /\ hCont' = r.page
             ELSE /\ hCont' = r.page
                  /\ hMiddleResp' = "page"
                  /\ hpc' = "final"
                  /\ UNCHANGED <<hResult, hErrLog, hTrackingInfo>>
    /\ UNCHANGED <<trackVars, convVars>>

\* lines 190-199: the final POST; no_tag["value"] raises KeyError on an input
\* without the attribute, before anything is sent
HctFinalPost ==
    /\ hpc = "final"
    /\ UNCHANGED <<hVia, hReuse, hTn, hAttempt, hSession, hSessCount, hTokens,
                   hCaptcha, hSeen, hPageGets, hImgGets, hOcrCalls, hResets, hDelays,
                   hShapeFails, hOtherFails, hPosts, hMiddle, hCont, hMiddleResp,
                   hLookups>>
    /\ IF hCont.no = NoValue \/ hCont.chk = NoValue
       THEN /\ HctRaise("KeyError", ErrorMsg("'value'", ""))
            /\ UNCHANGED <<hFinals, hData, hUsed>>
       ELSE /\ hFinals' = hFinals + 1
            /\ hUsed' = [hUsed EXCEPT !.final = SessionInUse]
            /\ \/ /\ \E e \in TransportErrors : HctRaise(e, ErrorMsg(e, ""))
                  /\ UNCHANGED hData
               \/ \E r \in HctFinalResponses :
                     IF r.status # 200
                     THEN /\ HctRaise("Exception",
                                      ErrorMsg("final request failed (status=)", StatusText(r.status)))
                          /\ UNCHANGED hData
                     ELSE /\ hData' = [html |-> r.html]
                          /\ UNCHANGED <<hErrLog, hTrackingInfo>>
                          /\ IF hVia
                             THEN hpc' = "convert" /\ UNCHANGED hResult
                             ELSE hpc' = "done" /\ hResult' = DataResult([html |-> r.html])
    /\ UNCHANGED <<trackVars, convVars>>

\* track_status, lines 32-33: convert is called outside the try
HctTrackConvert ==
    /\ hpc = "convert"
    /\ hpc' = "done"
    /\ hResult' = HctConvert(hTn, hData)
    /\ hTrackingInfo' =
          IF HctConvert(hTn, hData).kind = "raised"
          THEN hTrackingInfo
          ELSE HctConvert(hTn, hData)
    /\ UNCHANGED <<hVia, hReuse, hTn, hAttempt, hSession, hSessCount, hTokens,
                   hCaptcha, hSeen, hPageGets, hImgGets, hOcrCalls, hResets, hDelays,
                   hShapeFails, hOtherFails, hPosts, hFinals, hMiddle,
                   hCont, hMiddleResp, hUsed, hData, hErrLog, hLookups>>
    /\ UNCHANGED <<trackVars, convVars>>

HctNext ==
    \/ HctStart
    \/ HctGetPage
    \/ HctGetImage
    \/ HctClassify
    \/ HctPrimaryPost
    \/ HctFinalPost
    \/ HctTrackConvert

Init ==
    /\ HctInit
    /\ TrackInit
    /\ cpc = "idle"
    /\ cIn = [carrier |-> "none"]
    /\ cResult = Pending

SpecHct == Init /\ [][HctNext]_vars

SpecTrack == Init /\ [][TrackNext]_vars

\* The adapters' inputs are drawn here; convert is then applied to them.
InitConvert ==
    /\ HctInit
    /\ TrackInit
    /\ cpc = "ready"
    /\ cIn \in ConvertInputs
    /\ cResult = Pending

SpecConvert == InitConvert /\ [][ConvertNext]_vars


(***************************************************************************)
(* HCT: the claims.                                                        *)
(***************************************************************************)
\* _get_captcha_and_tokens has returned (tokens, captcha) in this lookup.
HctSolved == hpc \in {"post", "final", "convert"} \/ (hpc = "done" /\ hPosts = 1)

\* All MAX_ATTEMPTS attempts of this lookup failed.
HctExhausted == hShapeFails + hOtherFails = MAX_ATTEMPTS

\* C1: when the first attempt succeeds (page, image and a 4-character OCR
\* result), the lookup makes exactly one page GET, one image GET and one
\* classification call, and no session reset and no backoff delay, to its end.
C1_FirstAttemptSuccess ==
    (HctSolved /\ hAttempt = 1) =>
        /\ hPageGets = 1
        /\ hImgGets = 1
        /\ hOcrCalls = 1
        /\ hResets = 0
        /\ hDelays = 0

C1_Witness ==
    /\ hpc = "done" /\ hPosts = 1 /\ hFinals = 1 /\ hAttempt = 1
    /\ hVia /\ hResult.kind = "info"

\* C2: when attempts 1..k fail the 4-character check and attempt k+1 passes
\* it (k < 5), the solver returns the tokens of the page fetched in attempt
\* k+1 and that attempt's candidate, after exactly k resets and k delays.
C2_KFailuresThenSuccess ==
    (HctSolved /\ hOtherFails = 0) =>
        /\ hShapeFails < MAX_ATTEMPTS
        /\ hAttempt = hShapeFails + 1
        /\ hSeen.pageAt = hShapeFails + 1
        /\ hTokens = _extract_tokens(hSeen.page)
        /\ ~hTokens.isNone
        /\ hSeen.ocrAt = hShapeFails + 1
        /\ hCaptcha = Stripped(hSeen.ocr)
        /\ ShapeOk(hCaptcha)
        /\ hResets = hShapeFails
        /\ hDelays = hShapeFails

C2_Witness ==
    /\ hpc = "post" /\ hOtherFails = 0 /\ hShapeFails = MAX_ATTEMPTS - 1
    /\ hTokens.vs = "VS2"

\* C3: when all 5 attempts fail, track_status returns None and the error it
\* logs is the exhaustion message; no other failure of a lookup logs that
\* message.
C3_ExhaustionOutcome ==
    (hpc = "done" /\ hVia) =>
        /\ HctExhausted => (hResult = NoneResult /\ hErrLog = ExhaustedError)
        /\ ~HctExhausted => hErrLog # ExhaustedError

C3_Witness ==
    /\ hpc = "done" /\ hVia /\ hShapeFails = MAX_ATTEMPTS
    /\ hResult = NoneResult /\ hErrLog = ExhaustedError


(***************************************************************************)
(* Claims about track() and the trackers it builds.                        *)
(***************************************************************************)
\* The tracker's lookup operation was entered (track found it, or the caller
\* called it).
LookupRan ==
    /\ tpc # "idle"
    /\ tCls # "none"
    /\ (tEntry = "track" => TrackOperation \in Methods(tCls))

\* C4: every exception raised by the request layer or by the response
\* adapter during a lookup is turned into a None result: no lookup of the
\* 7-11 or FamilyMart tracker ends by raising to its caller.
C4_NoLookupFailurePropagates ==
    (LookupRan /\ tpc = "done" /\ tCls \in {"SevenElevenTracker", "FamilyMartTracker"})
        => tResult.kind # "raised"

C7_TrackOperationExists ==
    (tEntry = "track" /\ tArgs[1] \in AcceptedPlatforms /\ tpc = "done") =>
        ~(tResult.kind = "raised" /\ tResult.exc = "AttributeError")

\* C8: called as the tests call it, track(order_id, platform), with an
\* order identifier the carrier does not know, track returns None.
C8_UnknownOrderIsNone ==
    (tEntry = "track" /\ tArgs[2] \in {"Platform.FamilyMart", "Platform.OKMart"}
        /\ tpc = "done") =>
        tResult = NoneResult

\* C9: when the OKMart result page holds an order number, the lookup returns
\* a TrackingInfo with that order number, the page's status, and
\* is_delivered true exactly for the statuses "arrived" and "picked up".
C9_OkMartFoundOrder ==
    (LookupRan /\ tCls = "OKMartTracker" /\ tpc = "done"
        /\ ~tRaw.isNone /\ tRaw.v.odNo # NoneVal) =>
        /\ tResult.kind = "info"
        /\ tResult.order_id = tRaw.v.odNo
        /\ tResult.status = tRaw.v.status
        /\ tResult.is_delivered = (tRaw.v.status \in {"arrived", "picked up"})

\* C18: token presence in the 7-11 handshake. The payload search hands to
\* _send_post_request is built only from a page that holds __VIEWSTATE, it
\* leaves an absent __VIEWSTATEGENERATOR out, and it forwards a present one.
C18_TokenPresenceRules ==
    tpc = "se_post" =>
        /\ tPage.vs # "notag"
        /\ tPayload["__VIEWSTATE"] # "None"
        /\ tPage.vsg = "notag" => "__VIEWSTATEGENERATOR" \notin DOMAIN tPayload
        /\ tPage.vsg # "notag" => tPayload["__VIEWSTATEGENERATOR"] = tPage.vsg

\* C19: nothing an earlier lookup produced is observable after a later
\* lookup through the same SevenElevenTracker: when the later lookup is over,
\* a record in the tracker's tracking_info is the one that lookup returned.
C19_NoStateCrossesLookups ==
    (tEntry = "again" /\ tCls = "SevenElevenTracker" /\ tpc = "done") =>
        (tInfo.kind = "info" => tInfo = tResult)

(***************************************************************************)
(* Claims about the adapters.                                              *)
(***************************************************************************)
\* The number of status events the payload holds, carrier by carrier.
EventsIn(in) ==
    CASE in.carrier = HctPlatform ->
            Cardinality({i \in 1..Len(in.hct.html) : Strip(in.hct.html[i].time) # <<>>})
      [] in.carrier = EcanPlatform ->
            Cardinality({i \in 1..Len(in.ecan.rows) :
                            ~in.ecan.rows[i].colspan4 /\ Len(in.ecan.rows[i].tds) >= 4})
      [] in.carrier = TcatPlatform ->
            Cardinality({i \in 2..Len(in.tcat.rows) : Len(in.tcat.rows[i].cols) >= 3})
      [] in.carrier = KtjPlatform ->
            IF ~Truthy(Get(in.ktj, "result")) \/ in.ktj["result"].v[1].isNone
               \/ ~Truthy(Get(in.ktj["result"].v[1].v, "course"))
            THEN 0
            ELSE Len(in.ktj["result"].v[1].v["course"].v)
      [] in.carrier = FmPlatform ->
            IF "List" \in DOMAIN in.fm THEN Len(in.fm["List"]) ELSE 0
      [] OTHER -> 0

\* C10: for every adapter, a payload with zero status events makes convert
\* return None, and convert returns no TrackingInfo made from no event.
C10_ZeroEventsIsNone ==
    (cpc = "done" /\ EventsIn(cIn) = 0) => cResult = NoneResult

\* C11: the Ecan page of the scenario, two event rows in page order, the
\* first with time "2025/12/19 14:42" and status "delivered" (yi song da),
\* the second an older pickup notice: convert returns a record built from the
\* first row, with is_delivered true and time "2025/12/19 14:42".
EcanScenario(in) ==
    /\ in.carrier = EcanPlatform
    /\ in.ecan.table
    /\ Len(in.ecan.rows) = 2
    /\ in.ecan.rows[1] =
          EcanCellRow(<<<<"2025/12/19", " ", "14:42">>, <<"yi", "song", "da">>, <<>>, <<"S1">>>>)
    /\ in.ecan.rows[2] =
          EcanCellRow(<<<<"2025/12/18", " ", "09:00">>, <<"qu", "jian", "tong", "zhi">>,
                        <<>>, <<"S2">>>>)

C11_EcanScenario ==
    (cpc = "done" /\ EcanScenario(cIn)) =>
        /\ cResult.kind = "info"
        /\ cResult.is_delivered
        /\ cResult.time = <<"2025/12/19", " ", "14:42">>
        /\ cResult.status = <<"yi", "song", "da", "(", "S1", ")">>
        /\ cResult.platform = EcanPlatform

C11_Witness == cpc = "done" /\ EcanScenario(cIn) /\ cResult.kind = "info"

\* The phrases that mean delivered, carrier by carrier (hct.py 239,
\* ecan.py 121, tcat.py 91, ktj.py 124, family_mart.py 77-79).
DeliveredPhrases(carrier) ==
    CASE carrier = HctPlatform -> {<<"song", "da">>}
      [] carrier = EcanPlatform ->
            {<<"pei", "da", "wan", "cheng">>, <<"yi", "song", "da">>,
             <<"wan", "cheng", "pei", "da">>, <<"huo", "jian", "song", "da">>}
      [] carrier = TcatPlatform -> {<<"pei", "da", "wan", "cheng">>, <<"song", "da">>}
      [] carrier = KtjPlatform ->
            {<<"qian", "shou">>, <<"pei", "da">>, <<"yi", "song", "da">>,
             <<"yi", "wan", "cheng", "pei", "song">>, <<"yi", "wan", "cheng">>,
             <<"pei", "song", "wan", "cheng">>}
      [] carrier = FmPlatform ->
            {<<"huo", "jian", "pei", "da", "qu", "jian", "dian", "pu">>,
             <<"yi", "wan", "cheng", "qu", "jian">>}

\* The cells of the first event row of an Ecan page.
EcanFirstEvent(in) ==
    SelectSeq(in.ecan.rows, LAMBDA r : ~r.colspan4 /\ Len(r.tds) >= 4)[1].tds

\* The status text of the latest event: the status column of the first event
\* row for Ecan, the status of the record for the other carriers.
LatestStatusText(in, result) ==
    IF in.carrier = EcanPlatform THEN Strip(EcanFirstEvent(in)[2]) ELSE result.status

\* The text of the latest event the adapter looks the phrases up in: for Ecan
\* the status and the description of the first event row with a space between.
LatestTestedText(in, result) ==
    IF in.carrier = EcanPlatform
    THEN Strip(EcanFirstEvent(in)[2]) \o <<" ">> \o Strip(EcanFirstEvent(in)[3])
    ELSE result.status

\* C12 as stated: for every adapter and every payload with an event,
\* is_delivered is true exactly when the status text of the latest event
\* contains a phrase of the carrier's keyword set.
C12_StatusTextOnly ==
    (cpc = "done" /\ cResult.kind = "info") =>
        (cResult.is_delivered <=>
            \E k \in DeliveredPhrases(cIn.carrier) :
                Contains(LatestStatusText(cIn, cResult), k))

\* C12 amended: is_delivered is true exactly when the text the adapter tests
\* on the latest event contains a phrase of the carrier's keyword set: the
\* status text, and for Ecan the status and the description of the latest
\* event joined by a space; older events and other fields play no part.
C12_DeliveredIsKeywordTest ==
    (cpc = "done" /\ cResult.kind = "info") =>
        (cResult.is_delivered <=>
            \E k \in DeliveredPhrases(cIn.carrier) :
                Contains(LatestTestedText(cIn, cResult), k))

C12_Witness ==
    /\ cpc = "done"
    /\ cResult.kind = "info"
    /\ cIn.carrier = EcanPlatform
    /\ cResult.is_delivered
    /\ EcanFirstEvent(cIn)[2] = <<"pei", "song", "zhong">>
    /\ EcanFirstEvent(cIn)[3] = <<"huo", "jian", "song", "da">>

\* The latest event of a KTJ payload convert builds a record from.
KtjLatestEvent(in) == in.ktj["result"].v[1].v["course"].v[1].v

\* A time text of a known pattern: YYYY-MM-DD and HH:MM[:SS][.fff] with a
\* space or a T between them.
KnownTimePattern(s) ==
    LET c == Strip(s) IN
    /\ Len(c) >= 3
    /\ c[1] = "2025-12-16"
    /\ c[2] \in {" ", "T"}
    /\ c[3] = "05:08"
    /\ SubSeq(c, 4, Len(c)) \in {<<>>, <<":33">>, <<".000">>, <<":33", ".000">>}

\* C14: _normalize_time returns a time text that matches no known pattern
\* exactly as it was received (a known pattern comes back as
\* YYYY/MM/DD HH:MM, an absent or empty text as None).
C14_OtherTextAsReceived ==
    (cpc = "done" /\ cIn.carrier = KtjPlatform /\ cResult.kind = "info") =>
        LET t == Get(KtjLatestEvent(cIn), "processCargoCrtDAteAndTime") IN
        /\ ~Truthy(t) /\ ~Truthy(KtjTimeStr(KtjLatestEvent(cIn))) => cResult.time = NoneOpt
        /\ Truthy(t) /\ KnownTimePattern(t.v) =>
                cResult.time = Some(<<"2025/12/16", " ", "05:08">>)
        /\ Truthy(t) /\ ~KnownTimePattern(t.v) => cResult.time = t

(***************************************************************************)
(* Claims about the sessions and the POSTs of the HCT lookup.              *)
(***************************************************************************)
\* C15: the session-reset policy is the configured one. With reuse_session
\* True the handler keeps the session __init__ made through every retry and
\* the POSTs; with reuse_session False every failed attempt is followed by a
\* new session, so attempt k runs on the k-th session of the lookup and no
\* two consecutive attempts share one.
C15_SessionResetPolicy ==
    hpc # "idle" =>
        /\ hReuse => hSession = <<hLookups, 1>> /\ hSessCount = 1
        /\ ~hReuse => hSession = <<hLookups, hResets + 1>> /\ hSessCount = hResets + 1
        /\ hpc \in {"page", "image", "ocr", "post", "final"} => hResets = hAttempt - 1
        /\ hResets = hShapeFails + hOtherFails

C15_Witness ==
    /\ hpc = "final" /\ hReuse /\ hResets = 2 /\ hPosts = 1
    /\ hSession = <<hLookups, 1>>

\* The message of the exception that left get_data, if one did.
HctFailure ==
    IF hVia THEN hErrLog
    ELSE IF hResult.kind = "raised" THEN hResult.msg ELSE <<>>

\* The lookup failed: None through track_status, the exception for a direct
\* caller of get_data.
HctFailed ==
    /\ hpc = "done"
    /\ IF hVia THEN hResult = NoneResult ELSE hResult.kind = "raised"

\* C16: a lookup sends at most one primary POST; when that POST raises or
\* comes back with a status other than 200 or an empty body, the lookup has
\* failed at once: no further attempt of the solver, no second POST and no
\* final request.
C16_PrimaryPostOnce ==
    /\ hPosts <= 1
    /\ hMiddleResp # "unsent" => hPosts = 1
    /\ hMiddleResp \in {"exception", "bad_response"} =>
          /\ HctFailed
          /\ HctFailure[1] \in {"primary post failed: ",
                                "primary post bad response (status=)"}
          /\ hFinals = 0
          /\ hPageGets = hAttempt /\ hResets = hAttempt - 1

C16_Witness ==
    /\ hMiddleResp = "bad_response" /\ hVia /\ hResult = NoneResult
    /\ hPosts = 1 /\ hAttempt = 2

\* C17: when the intermediate response lacks the input named no or the one
\* named chk, get_data raises the missing-continuation error: no final POST
\* is sent, nothing is retried and the lookup has failed; a final POST is
\* only ever sent with both inputs found.
C17_MissingContinuationFails ==
    /\ (hMiddleResp = "page" /\ (hCont.no = "notag" \/ hCont.chk = "notag")) =>
          /\ HctFailed
          /\ HctFailure = <<"no/chk not found", "">>
          /\ hFinals = 0 /\ hPosts = 1
          /\ hPageGets = hAttempt /\ hResets = hAttempt - 1
    /\ hFinals >= 1 =>
          hMiddleResp = "page" /\ hCont.no # "notag" /\ hCont.chk # "notag"

C17_Witness ==
    /\ hMiddleResp = "page" /\ hCont.no = "N1" /\ hCont.chk = "notag"
    /\ hpc = "done" /\ hVia /\ hResult = NoneResult /\ hFinals = 0

\* C20: when all 5 attempts of the solver have failed, the lookup is over
\* with the exhaustion error: the solver gave no (tokens, captcha) pair, no
\* primary POST and no final POST were sent.
C20_ExhaustionIsTerminal ==
    /\ hShapeFails + hOtherFails <= 5
    /\ hShapeFails + hOtherFails = 5 =>
          /\ HctFailed
          /\ HctFailure = <<"max attempts exceeded, no valid captcha", "">>
          /\ hPosts = 0 /\ hFinals = 0 /\ hMiddleResp = "unsent"
          /\ hMiddle = NoDict
          /\ hPageGets = 5

C20_Witness ==
    /\ hShapeFails = 2 /\ hOtherFails = 3 /\ hpc = "done"
    /\ hPosts = 0 /\ ~hVia /\ hResult.kind = "raised"

(***************************************************************************)
(* Claims about the attempts of the solvers.                               *)
(***************************************************************************)
\* C21: the session reset and the backoff delay are applied only when another
\* attempt follows a failed one, so the resets and the delays of a lookup are
\* always one fewer than the attempts begun: a lookup that ends in exhaustion
\* after 5 failed attempts has made 4 resets and 4 delays.
C21_ResetOnlyBeforeRetry ==
    hpc # "idle" =>
        /\ hResets = hAttempt - 1
        /\ hDelays = hAttempt - 1
        /\ hShapeFails + hOtherFails = 5 => hResets = 4 /\ hDelays = 4

\* C22: a soft failure inside a 7-11 challenge attempt (the page GET, the
\* page without the image's src, the image GET, the reading of the image)
\* never lets an exception leave search: a lookup that ended before any POST
\* was sent did not end in an exception.
C22_SoftFailuresRetry ==
    (tCls = "SevenElevenTracker" /\ tpc = "done" /\ tPageGets >= 1 /\ tPosts = 0) =>
        tResult.kind # "raised"

\* C23: the candidate the HCT solver returns, and so the code in the txt_chk
\* field of the primary submission, is a string of exactly 4 characters with
\* no whitespace around it; a result that is no string, or of another length
\* once stripped, is never submitted.
C23_SubmittedCodeShape ==
    /\ HctSolved =>
          /\ hCaptcha.isStr
          /\ Len(hCaptcha.val) = 4
          /\ Strip(hCaptcha.val) = hCaptcha.val
          /\ hSeen.ocr.isStr /\ Strip(hSeen.ocr.val) = hCaptcha.val
    /\ hPosts >= 1 =>
          /\ hMiddle["txt_chk"] = hCaptcha.val
          /\ Len(hMiddle["txt_chk"]) = 4

C23_Witness ==
    /\ hPosts = 1
    /\ hSeen.ocr.val = <<" ", "w", "x", "y", "z", "NL">>
    /\ hMiddle["txt_chk"] = <<"w", "x", "y", "z">>

\* C24: the 7-11 loop is bounded. Whatever max_retry >= 0 and whatever the
\* server answers, search makes at most max_retry search-page GETs and at
\* most max_retry POSTs; retry_counter is the number of failed iterations,
\* one for each; and when every iteration failed, search returns None.
C24_SeRetryBounded ==
    tCls = "SevenElevenTracker" =>
        /\ tPageGets <= tMaxRetry
        /\ tPosts <= tMaxRetry
        /\ tPosts <= tPageGets
        /\ tRetry <= tMaxRetry
        /\ tpc = "se_page" => tPageGets = tRetry
        /\ tpc \in {"se_image", "se_post"} => tPageGets = tRetry + 1
        /\ tpc = "done" => tPageGets \in {tRetry, tRetry + 1}
        /\ (tpc = "done" /\ tRetry = tMaxRetry) => tResult = NoneResult

C24_Witness ==
    /\ tCls = "SevenElevenTracker" /\ tpc = "done"
    /\ tMaxRetry = 2 /\ tRetry = 2 /\ tPageGets = 2 /\ tPosts = 1
    /\ tResult = NoneResult

\* C25: 7-11 retries only on a challenge failure. An iteration is under way
\* only while no response was parsed yet or the parsed one carries the
\* captcha-error text; any other parsed response (success, not found,
\* another message) ended the loop in its own iteration, with no request
\* after it, even when retries remain.
C25_SeRetriesOnlyOnChallengeFailure ==
    tCls = "SevenElevenTracker" =>
        /\ tpc \in {"se_page", "se_image", "se_post"} =>
              (tRaw.isNone \/ tRaw.v.msg = "captcha error!!")
        /\ (tpc = "done" /\ ~tRaw.isNone /\ tRaw.v.msg # "captcha error!!") =>
              /\ tPageGets = tRetry + 1
              /\ tPosts >= 1
              /\ tRetry < tMaxRetry

C25_Witness ==
    /\ tCls = "SevenElevenTracker" /\ tpc = "done"
    /\ ~tRaw.isNone /\ tRaw.v.msg = "no such order"
    /\ tRetry = 0 /\ tMaxRetry = 5 /\ tPageGets = 1 /\ tPosts = 1
    /\ tResult = NoneResult

\* The first event of the payload in page order, as status and time: the
\* first container with a time (HCT), the first row of four cells (Ecan), the
\* first body row of three cells (Tcat), course[0] (KTJ), List[0]
\* (FamilyMart).
FirstEventOf(in) ==
    CASE in.carrier = HctPlatform ->
            LET c == SelectSeq(in.hct.html, LAMBDA x : Strip(x.time) # <<>>)[1]
            IN  [status |-> HctRecord(c).state, time |-> HctRecord(c).optime]
      [] in.carrier = EcanPlatform ->
            LET e == EcanDetail(EcanFirstEvent(in))
            IN  [status |-> StripOf(e.status \o <<"(">> \o e.station \o <<")", " ", "-", " ">>
                                       \o e.desc, {" ", "-"}),
                 time |-> e.date]
      [] in.carrier = TcatPlatform ->
            LET r == SelectSeq(Tail(in.tcat.rows), LAMBDA x : Len(x.cols) >= 3)[1]
            IN  [status |-> TcatDetail(r.cols).cargo_status,
                 time |-> TcatDetail(r.cols).op_time]
      [] in.carrier = KtjPlatform ->
            [status |-> Strip(Or(Get(KtjLatestEvent(in), "statusIdName"), Some(<<>>)).v),
             time |-> _normalize_time(KtjTimeStr(KtjLatestEvent(in)))]
      [] in.carrier = FmPlatform ->
            [status |-> in.fm["List"][1]["STATUS_D"],
             time |-> in.fm["List"][1]["ORDER_DATE_R"] \o <<":00">>]

\* C26: for every adapter and every payload convert builds a record from,
\* the status and the time of the record are those of the first event in
\* page order, whatever the later events hold.
C26_LatestIsFirst ==
    (cpc = "done" /\ cResult.kind = "info") =>
        /\ cResult.status = FirstEventOf(cIn).status
        /\ cResult.time = FirstEventOf(cIn).time

C26_Witness ==
    /\ cpc = "done" /\ cResult.kind = "info"
    /\ cIn.carrier = HctPlatform
    /\ cIn.hct.html = <<CTransit, CDelivered>>
    /\ cResult.time = <<"T1">>
    /\ ~cResult.is_delivered

\* The waybill the page echoes: for Ecan the text after the label in the
\* first colspan-4 cell, up to the first "-"; for Tcat the text of the .bl12
\* cell (the last one of the body rows); empty when there is none.
EchoedWaybill(in) ==
    CASE in.carrier = EcanPlatform ->
            LET cells == SelectSeq(in.ecan.rows, LAMBDA r : r.colspan4)
                txt == IF cells = <<>> THEN <<>> ELSE Strip(cells[1].text)
            IN  IF Len(txt) >= 3 /\ SubSeq(txt, 1, 2) = <<"dan", "hao">>
                   /\ txt[3] \in {"fullwidth:", ":"}
                THEN BeforeFirst(SubSeq(txt, 4, Len(txt)), "-")
                ELSE <<>>
      [] in.carrier = TcatPlatform ->
            LET cells == SelectSeq(Tail(in.tcat.rows), LAMBDA r : r.hasWaybill)
            IN  IF cells = <<>> THEN <<>> ELSE Strip(cells[Len(cells)].waybill)

\* C27: when the Ecan or the Tcat page echoes a waybill, order_id of the
\* record is that waybill (for Ecan without its "-suffix"), whatever
\* identifier the caller gave; without an echoed waybill it is the caller's.
C27_EchoedWaybillWins ==
    (cpc = "done" /\ cResult.kind = "info"
        /\ cIn.carrier \in {EcanPlatform, TcatPlatform}) =>
        cResult.order_id =
            IF EchoedWaybill(cIn) # <<>> THEN EchoedWaybill(cIn) ELSE cIn.tn

C27_Witness ==
    /\ cpc = "done" /\ cResult.kind = "info"
    /\ cIn.carrier = EcanPlatform
    /\ cIn.tn = <<"T", "N", "1">>
    /\ cIn.ecan.rows[1].text = <<"dan", "hao", "fullwidth:", "5", "7", "-", "0", "1">>
    /\ cResult.order_id = <<"5", "7">>

\* C28: an HCT lookup makes at most 5 challenge-page GETs, 5 image GETs,
\* 5 classification calls, 1 primary POST and 1 final POST, and a
\* track_status call that is over has ended in a TrackingInfo or in None.
C28_HctLookupBounded ==
    /\ hPageGets <= 5 /\ hImgGets <= 5 /\ hOcrCalls <= 5
    /\ hPosts <= 1 /\ hFinals <= 1
    /\ (hpc = "done" /\ hVia) => hResult.kind \in {"info", "none"}

\* C29: under either reset policy, within an attempt the page and its image
\* are fetched through the same session, and the primary POST and the final
\* POST go through the session that fetched the page and the image of the
\* successful attempt: nothing resets the session after the solver returned.
C29_SessionContinuity ==
    /\ (hpc = "ocr" \/ HctSolved) => hUsed.image = hUsed.page
    /\ HctSolved => hSession = hUsed.page
    /\ hPosts >= 1 => hUsed.post = hUsed.page
    /\ hFinals >= 1 => hUsed.final = hUsed.post /\ hUsed.final = hUsed.image

C29_Witness ==
    /\ ~hReuse /\ hFinals = 1 /\ hResets = 2
    /\ hUsed.page = <<hLookups, 3>>
    /\ hUsed.final = <<hLookups, 3>>

\* C30: in every attempt the image is fetched only after a 200 page with
\* content from which __VIEWSTATE and an image tag with a src were read, the
\* classification is called only after a 200 image response with content,
\* and the page GET, the image GET and the classification each happen at
\* most once in an attempt.
C30_StepOrdering ==
    /\ hpc \in {"image", "ocr"} =>
          /\ hSeen.pageAt = hAttempt
          /\ ~hSeen.page.empty
          /\ HasValue(hSeen.page.vs) /\ hSeen.page.img = "src"
          /\ ~hTokens.isNone /\ hTokens.vs = hSeen.page.vs
    /\ hpc = "ocr" =>
          /\ hSeen.imgAt = hAttempt
          /\ hSeen.img.status = 200 /\ hSeen.img.content
    /\ hpc = "page" => hPageGets = hAttempt - 1
    /\ hpc \in {"image", "ocr"} => hPageGets = hAttempt
    /\ hpc = "image" => hImgGets < hPageGets
    /\ hpc = "ocr" => hOcrCalls < hImgGets
    /\ hpc # "idle" => hOcrCalls <= hImgGets /\ hImgGets <= hPageGets /\ hPageGets <= hAttempt

C30_Witness ==
    /\ hpc = "ocr" /\ hAttempt = 3
    /\ hPageGets = 3 /\ hImgGets = 2 /\ hOcrCalls = 1
    /\ hSeen.imgAt = 3 /\ hSeen.page.vsg = NoTag

(***************************************************************************)
(* Claims about what a lookup returns and what the tracker keeps.          *)
(***************************************************************************)
\* In this lookup an attempt of the solver succeeded, the primary POST gave a
\* 200 page with content holding the inputs no and chk, the final POST gave
\* 200, and the final page holds a record with a time.
HctChainCompleted ==
    /\ hPosts = 1 /\ hOcrCalls >= 1 /\ ShapeOk(hCaptcha)
    /\ hMiddleResp = "page"
    /\ hCont.no # NoTag /\ hCont.chk # NoTag
    /\ hFinals = 1
    /\ HctRecords(hData.html) # <<>>

\* C31: HctTracker.track_status returns a TrackingInfo only if the whole
\* chain of the lookup completed (a solved challenge, a usable intermediate
\* page, a 200 final page with a timed record), and returns None in every
\* other case.
C31_InfoOnlyAfterWholeChain ==
    (hpc = "done" /\ hVia) =>
        /\ hResult.kind = "info" => HctChainCompleted
        /\ ~HctChainCompleted => hResult = NoneResult

\* The last iteration of the 7-11 loop got a response page, and that page
\* carries a script with an alert or the span lbMsg.
SeLastResponseFailed ==
    /\ tHtml # NoSeHtml
    /\ tHtml.script # "none" \/ tHtml.lbMsg # NoTag

\* The last iteration got a page that parse reads on its success branch and
\* whose m_news text holds '<status><date time>'.
SeLastResponseSucceeded ==
    /\ tHtml # NoSeHtml
    /\ tHtml.script = "none" /\ tHtml.lbMsg = NoTag
    /\ NewsMatches(tHtml.news)

\* C32: SevenElevenTracker.search returns a TrackingInfo only if the response
\* of the last iteration was parsed on the success branch and its m_news
\* text matches the pattern; a last response with an alert message, an lbMsg
\* message or the captcha-error text always yields None.
C32_NoRecordFromFailedResponse ==
    (tCls = "SevenElevenTracker" /\ tpc = "done") =>
        /\ tResult.kind = "info" =>
              /\ SeLastResponseSucceeded
              /\ tRaw = Some(SeParse(tHtml)) /\ tRaw.v.msg = "success"
        /\ SeLastResponseFailed => tResult = NoneResult

\* C33: after each track_status call on one HctTracker returns, the
\* tracker's tracking_info equals the value the call returned; after a call
\* that returned None it is None, not the record of an earlier lookup.
C33_StoredMatchesReturned ==
    (hpc = "done" /\ hVia /\ hResult.kind \in {"info", "none"}) =>
        hTrackingInfo = hResult

=============================================================================
